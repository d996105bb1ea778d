------------------------------ MODULE MCLaneKv ------------------------------
(* Instances of LaneKv for TLC.                                             *)
EXTENDS LaneKv, TLC

CONSTANTS l1, l2

(* One history of two pages, as a request that has ended left it.           *)
OneHistory == <<<<1, 2>>>>

(* States that differ only in the names of plane sets and slots, in which   *)
(* slots are free, in which of the two lanes is which, or in rows that no   *)
(* page, prefix or restore names, behave alike: TLC explores one of them.   *)
(* SlotsExact is about the free slots, so its truth is part of the view.    *)
SetView(s, used) ==
    LET mine == {p \in Pages : page[p].set = s} IN
    <<s = relief, mine,
      [b \in 1..Blocks |-> IF b <= used \/ \E p \in mine : page[p].where = "planes" /\ Block(p) >= b
                           THEN planes[s][b] ELSE None]>>
LaneSetView(l) == SetView(lane[l].set, IF job[l].pc \in {"idle", "pinned"} THEN lane[l].pos ELSE Blocks)
LaneView(l) ==
    LET foreign == job[l].foreign
    IN <<LaneSetView(l), [lane[l] EXCEPT !.set = None],
         [job[l] EXCEPT !.foreign = [i \in DOMAIN foreign |->
            <<foreign[i][1], {j \in DOMAIN foreign : foreign[j][2] = foreign[i][2]},
              {p \in Pages : page[p].set = foreign[i][2]},
              {LaneSetView(k) : k \in {k \in Lanes : lane[k].set = foreign[i][2]}}>>]]>>
View == <<{LaneView(l) : l \in Lanes},
          {SetView(s, 0) : s \in {t \in Sets : bound[t] \notin Lanes}},
          [p \in Pages |-> <<page[p].where, page[p].history, page[p].data,
                             IF page[p].slot = None THEN None ELSE spill.disk[page[p].slot]>>],
          spill.live, SlotsExact, roots, left>>
=============================================================================
