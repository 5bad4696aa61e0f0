----------------------------- MODULE ClientCache -----------------------------
(***************************************************************************)
(* The operations of concourse.Cache (src/internal/concourse/              *)
(* client_cache.go) on its map, each of them atomic under the mutex.  An   *)
(* entry is [name, rv, cl]: name and rv make up the key                    *)
(* "namespace/name@resourceVersion".                                       *)
(***************************************************************************)
EXTENDS Naturals

(* Mutant: the resourceVersion is not part of the key. *)
NameAsKey(obj) == [name |-> obj.name]

cacheKey(obj) == [name |-> obj.name, rv |-> obj.rv]

EntriesOf(cache, name) == {e \in cache : e.name = name}

Hit(cache, obj) == \E e \in cache : cacheKey(e) = cacheKey(obj)

Get(cache, obj) == (CHOOSE e \in cache : cacheKey(e) = cacheKey(obj)).cl

Evict(cache, name) == cache \ EntriesOf(cache, name)

(* Mutant: the entries of other versions stay. *)
SetWithoutEviction(cache, obj, cl) ==
  cache \cup {[name |-> obj.name, rv |-> obj.rv, cl |-> cl]}

Set(cache, obj, cl) ==
  Evict(cache, obj.name) \cup {[name |-> obj.name, rv |-> obj.rv, cl |-> cl]}
=============================================================================
