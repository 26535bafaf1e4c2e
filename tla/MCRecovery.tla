----------------------------- MODULE MCRecovery -----------------------------
(* Instances of Recovery for TLC.  Observation 10 d + n is the n-th of day *)
(* d.  The site is published on day 1, again on day 1, on day 2 and again  *)
(* on day 2; bundles are left on days 2 to 4, of which two contradict.     *)
EXTENDS Recovery, TLC
MCDayOf(t) == t \div 10
MCGens == << 1 :> 10, 1 :> 11, 1 :> 11 @@ 2 :> 20, 1 :> 11 @@ 2 :> 21 >>
MCEmpty == (Index :> <<>>) @@ (Recent :> <<>>)
MCLegacy == Published(MCGens[1]) @@ (Name("plain", 1) :> (1 :> 10))
MCPlain == [n \in DOMAIN MCLegacy \ {Name("gz", 1)} |-> MCLegacy[n]]
MCOld == {Absent, MCEmpty, MCLegacy, MCPlain, Published(MCGens[3])}
MCBundles == {[id |-> 1, at |-> 21, digest |-> "a", complete |-> TRUE],
              [id |-> 2, at |-> 22, digest |-> "a", complete |-> TRUE],
              [id |-> 3, at |-> 40, digest |-> "a", complete |-> TRUE],
              [id |-> 4, at |-> 40, digest |-> "b", complete |-> TRUE],
              [id |-> 5, at |-> 40, digest |-> "a", complete |-> TRUE],
              [id |-> 6, at |-> 30, digest |-> "a", complete |-> FALSE]}
=============================================================================
