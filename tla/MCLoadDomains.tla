----------------------------- MODULE MCLoadDomains -----------------------------
(***************************************************************************)
(* A small process for TLC: a program linked with two libraries, which     *)
(* opens and may close one plugin.                                         *)
(***************************************************************************)
EXTENDS LoadDomains, TLC

CONSTANTS exe, first, second, plugin, i1, i2, ip, x0, xp

TwoLinked == {first, second}
OnePlugin == {plugin}
ThreeInits == {i1, i2, ip}
TwoExits  == {x0, xp}

Owners ==
  (i1 :> first) @@ (i2 :> second) @@ (ip :> plugin) @@ (x0 :> exe) @@ (xp :> plugin)

\* The linked libraries differ, the plugin ties with one of them.
Priorities ==
  (i1 :> 0) @@ (i2 :> 1) @@ (ip :> 1) @@ (x0 :> 0) @@ (xp :> 0)
=============================================================================
