-------------------------- MODULE MCCommandHandler --------------------------
(* Instance of CommandHandler for TLC: pages of two bytes and directory     *)
(* pages of two references, so that the buffer of five bytes needs two      *)
(* directory pages, one full and one not, and the empty one needs none.     *)
(* One frontend links its directory pages as it likes.                      *)
EXTENDS CommandHandler

AnyFrontend == {[inOrder |-> TRUE, sound |-> TRUE], [inOrder |-> FALSE, sound |-> TRUE],
                [inOrder |-> TRUE, sound |-> FALSE]}
SomeSizes   == {0, 5}

=============================================================================
