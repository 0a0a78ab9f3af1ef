----------------------------- MODULE RtpRoomMC -----------------------------
(***************************************************************************)
(* RtpRoom for TLC: two clients, the host and a guest, and two threads.    *)
(* Beside what the tables hold each thread holds at most one session, room *)
(* and source: in these uses the names of the .cfg never run out.          *)
(***************************************************************************)
EXTENDS RtpRoom

CONSTANTS host, guest, t1, t2, a1, a2

Clients == {host, guest}
Threads == {t1, t2}
Addresses == {a1, a2}

\* Whether the use is orderly, who takes part, and how often each thing that
\* can go wrong does.
Way(o, cs, n, l, r, d, f) ==
    [orderly |-> o, clients |-> cs, leaves |-> n, losses |-> l, rebinds |-> r,
     delays |-> d, refusals |-> f, net |-> 1]

\* Orderly: both clients take part, and the guest leaves or vanishes, or a
\* command is lost, or the application refuses once; or the host changes its
\* address and the application refuses once.
Orderly == {Way(TRUE, Clients, 1, 0, 0, 0, 0), Way(TRUE, Clients, 0, 1, 0, 0, 0),
            Way(TRUE, Clients, 0, 0, 0, 0, 1), Way(TRUE, {host}, 0, 0, 1, 0, 1)}

\* Not orderly: the commands of one client, which receives the other's stream,
\* overtake each other on two threads while it leaves, loses one, changes its
\* address and is refused, or its source expires or its session goes while a
\* thread works on it.
Loose == {Way(FALSE, {host}, 1, 0, 0, 0, 0), Way(FALSE, {host}, 0, 1, 0, 0, 0),
          Way(FALSE, {host}, 0, 0, 1, 0, 1), Way(FALSE, {host}, 0, 0, 0, 1, 0)}

ManyUses == Orderly \cup Loose

=============================================================================
