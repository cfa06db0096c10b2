--------------------------- MODULE MCMediaSession ---------------------------
EXTENDS MediaSession

Map(name, pt, rate) == [name |-> name, pt |-> pt, rate |-> rate, ch |-> 1]

\* rtpmap lines: L16 usable, unusable, and behind an unusable one; telephone-event
\* at the codec's rate and at another one, with two channels, alone and twice.
MapLines == {
  <<>>,
  <<Map("L16", 96, 16000), Map("telephone-event", 101, 16000)>>,
  <<Map("telephone-event", 101, 8000), Map("L16", 96, 16000)>>,
  <<Map("L16", 96, 11025), Map("telephone-event", 101, 8000)>>,
  <<Map("L16", 97, 11025), Map("L16", 96, 8000)>>,
  <<Map("telephone-event", 101, 8000), Map("telephone-event", 97, 16000)>>,
  <<[Map("telephone-event", 101, 8000) EXCEPT !.ch = 2]>> }

Audio(port, fmts, maps) ==
  [kind |-> "audio", ip |-> NoAddr, port |-> port, fmts |-> fmts, maps |-> maps, ptime |-> 20]
Video == [Audio(5000, {0}, <<>>) EXCEPT !.kind = "video"]

Lines == { Audio(4000, fmts, maps) : fmts \in SUBSET {0, 8, 96, 101}, maps \in MapLines }

\* One audio line; one behind a video line; one behind a line with port 0, of the
\* session's address or its own; two lines of which only the second has an address;
\* and offers without media or without an address.
MCOffers ==
  { [ip |-> "session", media |-> <<m>>] : m \in Lines }
  \cup { [ip |-> "session", media |-> <<Video, Audio(4000, {0, 101}, <<>>)>>],
         [ip |-> "session", media |-> <<Audio(0, {8}, <<>>), Audio(4000, {0}, <<>>)>>],
         [ip |-> NoAddr, media |-> <<[Audio(4000, {0}, <<>>) EXCEPT !.ip = "own"]>>],
         [ip |-> NoAddr, media |-> <<Audio(4000, {8}, <<>>),
                                     [Audio(4000, {0}, <<>>) EXCEPT !.ip = "own"]>>],
         [ip |-> NoAddr, media |-> <<Audio(4000, {0}, <<>>)>>],
         [ip |-> "session", media |-> <<Video>>],
         [ip |-> "session", media |-> <<>>] }

MCInputs == {"PASS", "L16", "PCMU", "PCMA"} \X MCOffers

\* Tones of one packet, of several, of none, too long for 16 bits, longer than any
\* multiple of the packet time, and cut to its length modulo U16; digits in both cases
\* and one that is none.
MCAsked == { <<"5", 4>>, <<"a", 10>>, <<"#", 0>>, <<"5", 14>>, <<"x", 15>>, <<"0", 17>> }
MCDurations == { a[2] : a \in MCAsked }
=============================================================================
