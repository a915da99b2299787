----------------------------- MODULE MCSession -----------------------------
(***************************************************************************)
(* Session with small cores, calls that are refused, warriors that are     *)
(* too long, and seeds that make calc_pos retry, backtrack and give up.    *)
(***************************************************************************)
EXTENDS Session

Size(c, d, l) == [coresize |-> c, maxprocesses |-> 1, maxcycles |-> 1,
                  mindistance |-> d, maxlength |-> l]

\* The core of size -1 has 127 cells.  The last ones are refused.
SomeSizes == {Size(6, 2, 1), Size(9, 2, 2), Size(9, 3, 3), Size(13, 3, 2),
              Size(-1, 2, 2)}
               \cup {Size(3, 2, 2), Size(8, 2, 3), Size(8, -1, 2), Size(0, 1, 1)}

Fight(m, w, r, s) == [method |-> m, warriors |-> w, rounds |-> r, seed |-> s]

SomeCalls ==
  {Fight("run", w, r, s) : w \in {<<1, 1>>, <<1, 3>>, <<2, 1, 1>>},
                           r \in {0, 3}, s \in {-3, 2, 3, 11}}
    \cup {Fight("p_run", w, 1, 0) : w \in {<<2, 1>>, <<0, 1>>}}
    \cup {Fight("mw_run", w, 2, s) :
            w \in {<<1>>, <<1, 1>>, <<1, 1, 1>>, <<1, 2, 1, 1>>},
            s \in {-1} \cup 1 .. 60}

Foreign == {0, 7}
=============================================================================
