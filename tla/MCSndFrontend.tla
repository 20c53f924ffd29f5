--------------------------- MODULE MCSndFrontend ---------------------------
(* Instance of SndFrontend for TLC: up to two devices of two streams, whose *)
(* directories hold the ids of the documentation's examples, ids with the   *)
(* delimiters inside a field, and ids the parser or the daemon refuses.     *)
EXTENDS SndFrontend

BothBackEnds == {"PULSE", "ALSA"}

Id(type, device, name, value) ==
  [pcmType |-> <<type>>, deviceName |-> device, propName |-> name, propValue |-> value]

SomeWords == {"pulse", "Pulse", "ALSA", "alsa", "role", "navi", "hw", "a", "b", "0", "1"}

OnlyType == Id("Pulse", <<>>, <<>>, <<>>)

SomeFields ==
  {OnlyType,
   Id("pulse", <<>>, <<"role">>, <<"navi", ":", "1">>),
   Id("pulse", <<"a", ";", "b">>, <<>>, <<"navi">>),
   Id("ALSA", <<"hw", ":", "0", ";", "0">>, <<>>, <<>>),
   Id("alsa", <<>>, <<"role">>, <<"navi">>)}

\* No type; no ":"; no ">"; no such back end.
OtherIds == {<<"<", "card", ">">>, <<"alsa", "<", "hw">>, <<"jack">>}

Entry(id, type) == [id |-> id, type |-> type, complete |-> TRUE]

SomeEntries ==
  {Entry(Text(f), IF f = OnlyType THEN "other" ELSE "playback") : f \in SomeFields}
    \cup {Entry(id, "playback") : id \in OtherIds}
    \cup {Entry(<<"alsa">>, "capture"),
          [id |-> <<"pulse">>, type |-> "capture", complete |-> FALSE]}

=============================================================================
