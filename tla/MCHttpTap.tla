----------------------------- MODULE MCHttpTap -----------------------------
(* Instances of HttpTap for TLC.                                           *)
EXTENDS HttpTap

\* Compositions without a payload log inside a recover handler.
Sound == {<<>>, <<"recover">>, <<"access">>, <<"payload">>,
          <<"recover", "access">>, <<"access", "recover">>, <<"recover", "payload">>,
          <<"access", "payload">>, <<"payload", "access">>,
          <<"recover", "payload", "access">>, <<"access", "recover", "payload">>}

\* A handler that sends its status once, before the body, and does not stream.
Plain == {"header", "write", "set", "read", "hijack"}

\* One that streams, sets headers late and hijacks late or in vain.
Streaming == Plain \cup {"late", "delete", "flush", "hijackLate", "hijackFails"}

\* One that sends several statuses.
Repeating == (Streaming \ {"flush"}) \cup {"again"}

SoundOps ==
    [s \in Sound |->
        CASE "recover" \in Range(s) -> Plain
          [] s \in {<<>>, <<"access">>} -> Repeating
          [] OTHER -> Streaming]

PayloadInRecover == {<<"payload", "recover">>}
JustHeader == [s \in PayloadInRecover |-> {"header"}]

\* Each body unlimited, omitted and capped.
AllCaps == {<<-1, 2>>, <<2, 0>>, <<0, -1>>}
OneCap == {<<2, 2>>}

\* What the theorems about HttpTap assume, these stacks and handlers satisfy.
ASSUME SoundIsTidy == Stacks = Sound => Tidy /\ OneStatus /\ NoEmptyWrites
=============================================================================
