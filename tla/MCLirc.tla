------------------------------- MODULE MCLirc -------------------------------
(* Two buttons, lines that are no events, the packet of a reload, replies    *)
(* with and without data, one cut short, and one whose data has no lines.    *)
EXTENDS Lirc

Begun(rest) == <<Word("BEGIN"), Word("LIST")>> \o rest

SomePackets ==
  {<<PressOf(1)>>, <<PressOf(2)>>, <<Word("junk")>>, <<Word("short")>>, <<Word("long")>>,
   <<Word("BEGIN"), Word("SIGHUP"), Word("END")>>,
   Begun(<<Word("SUCCESS"), Word("END")>>),
   Begun(<<Word("ERROR"), Word("DATA"), Number(2), Word("a"), Word("END"),
            Word("END")>>),
   Begun(<<Word("junk")>>), Begun(<<Word("SUCCESS"), Word("junk")>>),
   Begun(<<Word("SUCCESS"), Word("DATA"), Word("junk")>>),
   Begun(<<Word("SUCCESS"), Word("DATA"), Number(1), Word("a"), Word("junk")>>),
   Begun(<<Word("SUCCESS"), Word("DATA"), Number(0), Word("END")>>)}

=============================================================================
