------------------------------- MODULE Cache --------------------------------
(***************************************************************************)
(* netcore::Cache (fastCache.hpp), the in-memory key/value store with      *)
(* expiry that the handlers share.  Its code is not in the repository: the *)
(* operators below are what src/ relies on.  A cache is a total function   *)
(* from keys to entries; an entry carries its value and the time it has    *)
(* left, and an entry with no time left is an absent key.  Every operation *)
(* is one atomic step of the caller.                                       *)
(***************************************************************************)
EXTENDS Naturals, Sequences

CONSTANT AppendRenews   \* does append() to a present key restart its expiry?

\* The store's source is not here, so both answers are admitted.
ASSUME AppendRenewsIsBoolean == AppendRenews \in BOOLEAN

Absent == [val |-> <<>>, ttl |-> 0]

EmptyCache(keys) == [k \in keys |-> Absent]

Exists(c, k) == c[k].ttl > 0

Put(c, k, v, ttl) == [c EXCEPT ![k] = [val |-> v, ttl |-> ttl]]

Del(c, k) == [c EXCEPT ![k] = Absent]

\* append(key, value, expire): creates the key or extends its value.
AppendTo(c, k, v, ttl) ==
  Put(c, k, Append(c[k].val, v),
      IF AppendRenews \/ ~Exists(c, k) THEN ttl ELSE c[k].ttl)

\* new_expire(key, seconds): no effect on an absent key.
NewExpire(c, k, ttl) == IF Exists(c, k) THEN [c EXCEPT ![k].ttl = ttl] ELSE c

\* One unit of time passes; a key whose time runs out is gone with its value.
Aged(c) ==
  [k \in DOMAIN c |->
     IF c[k].ttl > 1 THEN [c[k] EXCEPT !.ttl = @ - 1] ELSE Absent]
=============================================================================
