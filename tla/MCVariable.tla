----------------------------- MODULE MCVariable -----------------------------
(* Small sets of scripts for the model checker.                            *)
EXTENDS Variable, TLC

CONSTANTS m, a, b, c, x, y, k

Do(kind, v) == [kind |-> kind, var |-> v, val |-> 1]

(* LOCK v; ADD v,v,1; UNLOCK v                                             *)
LockedAdd(v) ==
  <<Do("lock", v), Do("get", v), Do("add", v), Do("unlock", v)>>

ClientOps == {Do("lock", x), Do("unlock", x), Do("get", x), Do("add", x)}
ClientScripts == [1..3 -> ClientOps]
MainScripts ==
  {<<Do("set", x)>>, <<Do("set", k)>>, <<Do("lock", x)>>}

(* Two threads that execute any three operations on x, while main writes x *)
(* or tries to update a constant or to lock x.                             *)
AnyClient ==
  {[t \in {m, a, b} |-> IF t = m THEN ms ELSE IF t = a THEN as ELSE bs] :
     ms \in MainScripts, as \in ClientScripts, bs \in ClientScripts}

(* The nested locks of two variables, in the same and in opposite order,   *)
(* while main reads both and a third thread locks the other; and           *)
(* lock_test.mis with a second locking thread: each locks once.            *)
Nested(v, w) ==
  <<Do("lock", v), Do("lock", w), Do("get", w), Do("add", w), Do("unlock", w),
    Do("unlock", v)>>
NestedClient ==
  {[t \in {m, a, b} |-> IF t = m THEN <<Do("get", x), Do("get", y)>>
                        ELSE IF t = a THEN Nested(x, y) ELSE bs] :
     bs \in {Nested(x, y), Nested(y, x), <<Do("lock", y), Do("lock", y)>>}}
OneShotClient ==
  NestedClient \cup {[t \in {m, a, b} |-> IF t = m THEN <<>> ELSE LockedAdd(x)]}

(* A third locking thread, or a thread that locks twice.                   *)
ThreeLockers ==
  {[t \in {m, a, b, c} |-> IF t = m THEN <<>> ELSE LockedAdd(x)]}
OneLockerWaits ==
  {[t \in {m, a, b} |->
      IF t = m THEN <<>> ELSE <<Do("lock", x), Do("unlock", x)>>]}

ClientSymmetry == Permutations({a, b})
=============================================================================
