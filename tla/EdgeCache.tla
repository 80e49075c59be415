----------------------------- MODULE EdgeCache ------------------------------
(***************************************************************************)
(* One shard of EdgeLRUCache (src/include/astervec_index.h): an arena of   *)
(* slots with intrusive LRU links and a free list, and an open-addressing  *)
(* table from node ids to slots with linear probing and backward-shift     *)
(* deletion.  Every operation runs under the shard's mutex and is one      *)
(* action; shards share nothing but their counters.                        *)
(***************************************************************************)
EXTENDS Integers, Sequences, SequencesExt

CONSTANTS Keys,         \* node ids of this shard
          Lists,        \* neighbour lists
          Cap,          \* per_shard_capacity_
          Hash(_),      \* the multiply-shift of hhash, before the mask
          VarintModes,  \* settings of ASTERVEC_EDGE_CACHE_VARINT
          NoKey,        \* k_invalid_node_id
          Miss          \* a get that found nothing

ASSUME CapAssumption == Cap \in Nat \ {0} /\ NoKey \notin Keys

VARIABLES slots,        \* the arena
          table,        \* hkeys and hvals
          head, tail, free_head, count,
          varint,       \* the encoding, latched by the process
          got           \* what the last get returned

vars == <<slots, table, head, tail, free_head, count, varint, got>>
list == <<head, tail>>

kInvalid == 0           \* slots are numbered from 1

(***************************************************************************)
(* Encoding of a neighbour list                                            *)
(***************************************************************************)

\* Mutant of Varint: a value of exactly 128 is written in one byte.
RECURSIVE VarintOffByOne(_)
VarintOffByOne(v) == IF v > 128 THEN <<128 + (v % 128)>> \o VarintOffByOne(v \div 128)
                     ELSE <<v % 256>>

\* LEB128: seven bits a byte, the high bit set on all but the last.
RECURSIVE Varint(_)
Varint(v) == IF v >= 128 THEN <<128 + (v % 128)>> \o Varint(v \div 128) ELSE <<v>>

encodeInto(ids) == IF varint THEN FlattenSeq([i \in 1..Len(ids) |-> Varint(ids[i])]) ELSE ids

\* v and scale: what the bytes of the current id have given so far.
RECURSIVE Unvarint(_, _, _)
Unvarint(bytes, v, scale) ==
  IF bytes = <<>> THEN <<>>
  ELSE LET b == Head(bytes) IN
       IF b >= 128 THEN Unvarint(Tail(bytes), v + (b - 128) * scale, scale * 128)
       ELSE <<v + b * scale>> \o Unvarint(Tail(bytes), 0, 1)

decodeInto(enc) == IF varint THEN Unvarint(enc, 0, 1) ELSE enc

(***************************************************************************)
(* The probe table                                                         *)
(***************************************************************************)

\* init: a power of two, at least twice the capacity.
hcap == LET want == IF Cap < 8 THEN 16 ELSE 2 * Cap IN
        2^(CHOOSE n \in 0..want : want <= 2^n /\ 2^n < 2 * want)
Cells == 0..(hcap - 1)

\* The value of an empty cell is never read.
Empty == [key |-> NoKey, val |-> kInvalid]

hhash(id) == Hash(id) % hcap

\* The cell a probe for id stops at: the first that is empty or holds it.
Probe(t, id) ==
  LET h == hhash(id)
      At(d) == (h + d) % hcap
      d == CHOOSE n \in Cells : /\ t[At(n)].key \in {NoKey, id}
                                /\ \A m \in 0..(n - 1) : t[At(m)].key \notin {NoKey, id}
  IN At(d)

find(id) == LET c == Probe(table, id) IN IF table[c].key = NoKey THEN kInvalid ELSE table[c].val

hinsert(t, id, slot) == [t EXCEPT ![Probe(t, id)] = [key |-> id, val |-> slot]]

\* Mutant of shift: an entry moves only if its home lies before the hole.
RECURSIVE shiftTooFew(_, _, _)
shiftTooFew(t, i, j) ==
  LET n == (j + 1) % hcap IN
  IF t[n].key = NoKey THEN [t EXCEPT ![i] = Empty]
  ELSE IF (n - hhash(t[n].key)) % hcap > (n - i) % hcap
       THEN shiftTooFew([t EXCEPT ![i] = t[n]], n, n)
       ELSE shiftTooFew(t, i, n)

\* The hole at i takes the next entry whose home is not inside (i, n].
RECURSIVE shift(_, _, _)
shift(t, i, j) ==
  LET n == (j + 1) % hcap IN
  IF t[n].key = NoKey THEN [t EXCEPT ![i] = Empty]
  ELSE IF (n - hhash(t[n].key)) % hcap >= (n - i) % hcap
       THEN shift([t EXCEPT ![i] = t[n]], n, n)
       ELSE shift(t, i, n)

herase(t, id) == LET i == Probe(t, id) IN IF t[i].key = NoKey THEN t ELSE shift(t, i, i)

(***************************************************************************)
(* The LRU list, as [s |-> slots, h |-> head, t |-> tail]                  *)
(***************************************************************************)

link_front(l, n) ==
  [s |-> [i \in DOMAIN l.s |-> IF i = n THEN [l.s[i] EXCEPT !.prev = kInvalid, !.next = l.h]
                               ELSE IF i = l.h THEN [l.s[i] EXCEPT !.prev = n] ELSE l.s[i]],
   h |-> n,
   t |-> IF l.t = kInvalid THEN n ELSE l.t]

unlink(l, n) ==
  LET p == l.s[n].prev  q == l.s[n].next IN
  [s |-> [i \in DOMAIN l.s |->
            IF i = n THEN [l.s[i] EXCEPT !.prev = kInvalid, !.next = kInvalid]
            ELSE IF i = p THEN [l.s[i] EXCEPT !.next = q]
            ELSE IF i = q THEN [l.s[i] EXCEPT !.prev = p] ELSE l.s[i]],
   h |-> IF p = kInvalid THEN q ELSE l.h,
   t |-> IF q = kInvalid THEN p ELSE l.t]

move_to_front(l, n) == IF l.h = n THEN l ELSE link_front(unlink(l, n), n)

Links == [s |-> slots, h |-> head, t |-> tail]
Become(l) == slots' = l.s /\ head' = l.h /\ tail' = l.t

(***************************************************************************)
(* Operations                                                              *)
(***************************************************************************)

Init == /\ slots = <<>>
        /\ table = [c \in Cells |-> Empty]
        /\ head = kInvalid /\ tail = kInvalid /\ free_head = kInvalid /\ count = 0
        /\ varint \in VarintModes
        /\ got = Miss

\* Fills slot n of the links l with a new entry at the front.
Fill(l, t, n, k, ids) ==
  /\ Become(link_front([l EXCEPT !.s = [@ EXCEPT ![n].key = k, ![n].enc = encodeInto(ids)]], n))
  /\ table' = hinsert(t, k, n)

putExisting(k, ids) ==
  /\ find(k) # kInvalid
  /\ Become(move_to_front([Links EXCEPT !.s = [@ EXCEPT ![find(k)].enc = encodeInto(ids)]], find(k)))
  /\ UNCHANGED <<table, free_head, count, varint, got>>

\* A full shard reuses the slot of its last entry.
putEvicting(k, ids) ==
  /\ find(k) = kInvalid /\ count >= Cap
  /\ Fill(unlink(Links, tail), herase(table, slots[tail].key), tail, k, ids)
  /\ UNCHANGED <<free_head, count, varint, got>>

\* Otherwise the head of the free list, or a new slot at the end of the arena.
putReusing(k, ids) ==
  /\ find(k) = kInvalid /\ count < Cap
  /\ LET fresh == free_head = kInvalid
         n == IF fresh THEN Len(slots) + 1 ELSE free_head
         s == IF fresh THEN Append(slots, [key |-> k, enc |-> <<>>, prev |-> 0, next |-> 0])
              ELSE slots IN
     /\ Fill([Links EXCEPT !.s = s], table, n, k, ids)
     /\ free_head' = IF fresh THEN kInvalid ELSE slots[n].next
  /\ count' = count + 1
  /\ UNCHANGED <<varint, got>>

put(k, ids) == putExisting(k, ids) \/ putEvicting(k, ids) \/ putReusing(k, ids)

erase(k) ==
  /\ find(k) # kInvalid
  /\ LET n == find(k)  l == unlink(Links, n) IN
     /\ Become([l EXCEPT !.s = [@ EXCEPT ![n].enc = <<>>, ![n].next = free_head]])
     /\ free_head' = n
  /\ table' = herase(table, k)
  /\ count' = count - 1
  /\ UNCHANGED <<varint, got>>

\* A hit copies the list and does not reorder.
get(k) ==
  /\ got' = IF find(k) = kInvalid THEN Miss ELSE decodeInto(slots[find(k)].enc)
  /\ UNCHANGED <<slots, table, head, tail, free_head, count, varint>>

Next == \E k \in Keys : (\E ids \in Lists : put(k, ids)) \/ erase(k) \/ get(k)

Spec == Init /\ [][Next]_vars

(***************************************************************************)
(* Properties                                                              *)
(***************************************************************************)

\* Every variable keeps its type, the arena stays within the capacity, and
\* half of the table stays empty, so that every probe ends.
TypeOK ==
  /\ \A i \in DOMAIN slots : /\ slots[i].key \in Keys
                             /\ {slots[i].prev, slots[i].next} \subseteq 0..Len(slots)
  /\ Len(slots) <= Cap /\ count \in 0..Len(slots)
  /\ {head, tail, free_head} \subseteq 0..Len(slots)
  /\ \A c \in Cells : table[c].key \in Keys \cup {NoKey} /\ table[c].val \in 0..Len(slots)
  /\ 2 * Len(SelectSeq([c \in 1..hcap |-> table[c - 1].key], LAMBDA k : k # NoKey)) <= hcap
  /\ got \in Lists \cup {Miss}

\* The slots reached from i, at most n of them.
RECURSIVE Chain(_, _, _)
Chain(i, n, link) == IF i = kInvalid \/ n = 0 THEN <<>>
                     ELSE <<i>> \o Chain(link[i], n - 1, link)

NextOf == [i \in DOMAIN slots |-> slots[i].next]
PrevOf == [i \in DOMAIN slots |-> slots[i].prev]
Forward == Chain(head, Len(slots) + 1, NextOf)
Backward == Chain(tail, Len(slots) + 1, PrevOf)
Free == Chain(free_head, Len(slots) + 1, NextOf)

\* The LRU list read from either end and the free list never lose, share or
\* repeat a slot: together they are the arena, and count is the list's length.
SlotsPartitioned ==
  /\ Backward = Reverse(Forward) /\ Len(Forward) = count
  /\ Len(Forward) + Len(Free) = Len(slots)
  /\ ToSet(Forward) \cup ToSet(Free) = DOMAIN slots

\* After any mix of puts, evictions and erases, a probe finds each entry of
\* the list in its own slot, and nothing else: no backward shift cuts a key off
\* from its home or leaves a second copy behind.
ProbesFindTheList ==
  /\ \A i \in ToSet(Forward) : find(slots[i].key) = i
  /\ \A k \in Keys : find(k) # kInvalid => slots[find(k)].key = k /\ find(k) \in ToSet(Forward)
  /\ \A c \in Cells : table[c].key # NoKey => Probe(table, table[c].key) = c

\* The shard's four structures (arena, LRU list, free list, probe table) agree
\* after every put, eviction and erase.
ShardConsistent == TypeOK /\ SlotsPartitioned /\ ProbesFindTheList

AbsOrder == LET fw == Forward IN
            [i \in 1..Len(fw) |-> [key  |-> slots[fw[i]].key,
                                   list |-> decodeInto(slots[fw[i]].enc)]]

Abstract == INSTANCE LruCache WITH order <- AbsOrder

\* The shard implements the LRU list: the same entries in the same order, the
\* same evictions, and every get returns the list put last under its key.
LruSpec == Abstract!Spec
=============================================================================
