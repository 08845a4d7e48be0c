----------------------------- MODULE MCOomGuard -----------------------------
(* Small instances of OomGuard: two VMs, and forty units of memory, so a   *)
(* floor of four.                                                          *)
EXTENDS OomGuard

Sampled40(pressure, available, swap, resident) ==
  [pressure |-> pressure, total |-> {40}, available |-> available,
   swap_free |-> {swap}, resident |-> {resident}]

(* Of a kernel's level: pressure of this program's making or another's,    *)
(* with swap or without.  Of what is left: withheld, far from the floor,   *)
(* above it, at it and below it.                                           *)
SomeSamples ==
  {Sampled40("normal", {30}, 40, 10), Sampled40("critical", {13}, 40, 10),
   Sampled40("critical", {13}, 40, 1), Sampled40("critical", {3}, 0, 10)}
  \cup {Sampled40("unknown", a, 0, 10) : a \in {{}, {30}, {20}, {13}, {4}, {3}}}
  \cup {Sampled40("unknown", {3}, 40, 10)}
=============================================================================
