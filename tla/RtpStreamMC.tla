---------------------------- MODULE RtpStreamMC ----------------------------
(* Small instances of RtpStream. *)
EXTENDS RtpStream

\* A client that watches a video; with the second kind of request; across
\* the last number with both kinds; from a silence to the next, with messages between; and
\* with a sender that leaves and comes back.
Video == [server |-> FALSE, kinds |-> {"key", "delta"}, sizes |-> {1, 2}, messages |-> {1},
          frames |-> 3, start |-> 0, nak |-> 1, losses |-> 1, dups |-> 0, late |-> 2,
          steps |-> {1}, reenter |-> {}, exact |-> FALSE]
Again == [Video EXCEPT !.nak = 2, !.losses = 2, !.late = 3,
                        !.kinds = {"key"}, !.start = 5]
Round == [Video EXCEPT !.nak = 2, !.losses = 2, !.kinds = {"key"}, !.start = NumSeq - 3]
Across == [Round EXCEPT !.nak = 1]
Break == [Video EXCEPT !.losses = 0, !.kinds = {"key", "untimed"}, !.steps = {1, Pause + 1}]
Anew  == [Video EXCEPT !.reenter = Settled, !.start = 8, !.kinds = {"key"}]

\* The server: a packet may come twice, as late as the ring allows.
Relay == [Video EXCEPT !.server = TRUE, !.sizes = {2}, !.kinds = {"audio"}, !.losses = 1,
                        !.dups = 1, !.late = Ring - 1]
Moved == [Relay EXCEPT !.reenter = {1, 2}, !.losses = 0]

StreamUses == {Video, Again, Round, Across, Break, Anew, Relay, Moved}
=============================================================================
