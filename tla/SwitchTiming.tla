---------------------------- MODULE SwitchTiming ----------------------------
(***************************************************************************)
(* create_get_switch and check_edge_with_mux_timing of                     *)
(* prjxray_form_channels.py.  A row of the switch table stands for all     *)
(* pips and site pins of one timing, which are found by a cache in memory; *)
(* a pip between two site pins gets a switch with the delay of all three.  *)
(*                                                                         *)
(* Timings are small numbers in place of seconds, Farads and Ohms.         *)
(***************************************************************************)
EXTENDS Integers, Sequences

Timing(delay, r, c) == [delay |-> delay, r |-> r, c |-> c]

NoTiming == Timing(0, 0, 0)

(* SINGLE_PRECISION_FLOAT_MIN                                              *)
Tiny == 1

Row(pass, timing) == [pass |-> pass, timing |-> timing]

(* The switch that is in the table and the cache from the beginning.       *)
Delayless == Row(FALSE, NoTiming)

(* get_switch: where Project X-Ray has no timing, all is zero; for a site  *)
(* pin the delay is not.                                                   *)
SwitchOfPip(pip, timing) ==
  Row(pip.pass, IF timing = {} THEN NoTiming ELSE CHOOSE t \in timing : TRUE)

SwitchOfPin(timing) ==
  Row(FALSE, IF timing = {} THEN Timing(Tiny, 0, 0) ELSE CHOOSE t \in timing : TRUE)

(* get_switch_timing, for tables in memory, what of them is committed, and *)
(* the cache: a switch that is new is committed with all before it.        *)
GetSwitchTiming(s, row) ==
  IF row \in DOMAIN s.cache THEN s
  ELSE LET tables == [s.memory EXCEPT !.switch = Append(@, row)]
       IN  [memory |-> tables, committed |-> tables,
            cache |-> [k \in DOMAIN s.cache \union {row} |->
                         IF k = row THEN Len(tables.switch) ELSE s.cache[k]]]

-----------------------------------------------------------------------------
(* A pip sw from a wire of capacitance cs, on the site pin of the switch   *)
(* src, to a wire of capacitance cd on the site pin of dest.               *)

ZeroDelay(src, cs, sw, cd, dest) ==
  /\ src.r = 0 \/ (sw.timing.c = 0 /\ cs = 0)
  /\ sw.timing.r = 0 \/ (cd = 0 /\ dest.c = 0)
  /\ src.delay = 0 /\ dest.delay = 0

(* The assertions of check_edge_with_mux_timing.                           *)
CanBeLumped(src, cs, sw, cd, dest) ==
  \/ ZeroDelay(src, cs, sw, cd, dest) \/ ~sw.pass
  \/ sw.timing.delay = 0 /\ sw.timing.r = 0

Lumped(src, cs, sw, cd, dest) ==
  IF ZeroDelay(src, cs, sw, cd, dest) THEN sw.timing.delay
  ELSE IF sw.pass
  THEN src.delay + src.r * (cs + sw.timing.c + cd + dest.c) + dest.delay
  ELSE src.delay + src.r * (sw.timing.c + cs) + sw.timing.delay
         + sw.timing.r * (cd + dest.c) + dest.delay

(* The delay of Elmore: a resistance charges what comes after it, as far   *)
(* as the next buffer.                                                     *)
ElmoreDelay(src, cs, sw, cd, dest) ==
  LET after == cd + dest.c
      before == cs + sw.timing.c + (IF sw.pass THEN after ELSE 0)
  IN  src.delay + src.r * before + sw.timing.delay + sw.timing.r * after + dest.delay
=============================================================================
