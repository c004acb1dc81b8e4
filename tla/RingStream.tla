---------------------------- MODULE RingStream ----------------------------
(***************************************************************************)
(* The outbound ring (RingStream.cpp) as operators on a record r of its    *)
(* members. A message is a client byte, two bytes of count and the payload;*)
(* mark opens one, write adds to it, commit closes it or throws it away.   *)
(***************************************************************************)
EXTENDS Integers, Sequences, SequencesExt

CONSTANT RingLen     \* _len
ASSUME RingLenAssumption == RingLen \in Nat \ {0}

NO_CLIENT == 255

Empty == [buf |-> [i \in 0 .. RingLen - 1 |-> 0], pw |-> 0, pr |-> 0, overflow |-> FALSE,
          mark |-> 0, count |-> 0, client |-> NO_CLIENT]

write(r, b) ==
    IF r.overflow THEN r ELSE
    LET w == (r.pw + 1) % RingLen
    IN [r EXCEPT !.buf[r.pw] = b, !.pw = w, !.overflow = (w = r.pr),
                 !.count = IF w = r.pr THEN @ ELSE @ + 1]

print(r, s) == FoldLeft(write, r, s)

IsEmpty(r) == r.pr = r.pw /\ ~r.overflow
Byte(r, i) == r.buf[(r.pr + i) % RingLen]

mark(r, c) == [print([r EXCEPT !.client = c, !.mark = r.pw], <<c, 0, 0>>) EXCEPT !.count = 0]

\* A message that did not fit is thrown away but its client stays marked; an
\* empty one is taken back; otherwise the count is put behind the client byte.
commit(r) ==
    IF r.overflow THEN [r EXCEPT !.pw = r.mark, !.overflow = FALSE]
    ELSE IF r.count = 0 THEN [r EXCEPT !.pw = r.mark, !.client = NO_CLIENT]
    ELSE LET hi == (r.mark + 1) % RingLen
             lo == (r.mark + 2) % RingLen
         IN [r EXCEPT !.buf[hi] = r.count \div 256, !.buf[lo] = r.count % 256,
                      !.mark = lo, !.client = NO_CLIENT]

\* The messages a reader finds, from what is in the ring now. A count that
\* leads out of the written bytes ends the list with Broken.
Broken == [c |-> -1, data |-> <<>>]
Messages(r) ==
    LET used == IF r.overflow THEN RingLen ELSE (r.pw - r.pr + RingLen) % RingLen
        From[n \in 0 .. used] ==
            LET len == Byte(r, n + 1) * 256 + Byte(r, n + 2)
            IN IF n = used THEN <<>>
               ELSE IF n + 3 + len > used THEN <<Broken>>
               ELSE <<[c |-> Byte(r, n), data |-> [i \in 1 .. len |-> Byte(r, n + 2 + i)]]>>
                    \o From[n + 3 + len]
    IN From[0]

===========================================================================
