---------------------------- MODULE MCProxyTracker ----------------------------
(* Model-checking instance of ProxyTracker.                                *)
EXTENDS ProxyTracker, TLC

\* Uids and proxy slots are interchangeable model values.
Symmetry == Permutations(Uids) \cup Permutations(Proxies)

(* Watermark pairs for setBinderProxyCountWatermarks: lowering the high *)
(* watermark while a uid is over it, raising both, and -1/-1, which the   *)
(* uint32_t watermarks store as the largest value.                         *)
TrackerWatermarks == {<<2, 1>>, <<3, 2>>, <<-1, -1>>}
\* Watermarks fixed at 3/0: a low watermark of zero.
ZeroLowWatermarks == {<<3, 0>>}

=============================================================================
