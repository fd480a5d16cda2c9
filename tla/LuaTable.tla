------------------------------ MODULE LuaTable ------------------------------
(***************************************************************************)
(* Tables of the interpreter (src/src/lua/ltable.c): an array part whose   *)
(* size is only implied by a hint at the table's length, and a hash part   *)
(* of nodes that chain by offsets, with a pointer below which free nodes   *)
(* are looked for.  A key is its kind and its number: the integer itself,  *)
(* twice the float, the hash of a string, the address of an object.        *)
(***************************************************************************)
EXTENDS Integers, Sequences, FiniteSets, SequencesExt

CONSTANTS
  MAXASIZE,        \* the largest array part, a power of 2
  LUA_MAXINTEGER,
  Tables           \* programs: the keys they use and the sizes they create with

ASSUME TableAssumption ==
  /\ \E e \in 0 .. 16 : MAXASIZE = 2 ^ e
  /\ LUA_MAXINTEGER \in Nat /\ LUA_MAXINTEGER > MAXASIZE
  /\ \A p \in DOMAIN Tables : \A k \in Tables[p].keys : k[1] \in {"int", "flt", "str", "ref"}

VARIABLES t,        \* the table
          content,  \* the keys that programs have set and not cleared
          iter,     \* the traversal by 'next' under way
          program   \* which of Tables runs

tableVars == <<t, content, iter, program>>

NIL == <<"nil", 0>>
Collectable(k) == k[1] \in {"str", "ref"}
IsInt(k) == k[1] = "int"
\* luaV_flttointeger: a float with an integral value is the integer as a key
Normal(k) == IF k[1] = "flt" /\ k[2] % 2 = 0 THEN <<"int", k[2] \div 2>> ELSE k

FreeNode == [key |-> NIL, val |-> NIL, next |-> 0, dead |-> FALSE]
\* The hash part of 'dummynode'
Dummy == [node |-> [i \in {0} |-> FreeNode], lastfree |-> -1]
IsDummy(u) == u.lastfree = -1
SizeNode(u) == Cardinality(DOMAIN u.node)

----------------------------------------------------------------------------
\* Searching.

IsPow2(n) == n = 0 \/ \E e \in 0 .. 16 : n = 2 ^ e
CeilLog2(n) == CHOOSE e \in 0 .. 16 : n <= 2 ^ e /\ (e = 0 \/ 2 ^ (e - 1) < n)
\* 'alimit' is the size of the array, or a hint below it when the size is a
\* power of 2.
LimitEqualsASize(u) == u.real \/ IsPow2(u.alimit)
RealASize(u) == IF LimitEqualsASize(u) THEN u.alimit ELSE 2 ^ CeilLog2(u.alimit)
IsPow2RealASize(u) == ~u.real \/ IsPow2(u.alimit)
\* setlimittosize
LimitToSize(u) == [u EXCEPT !.alimit = RealASize(u), !.real = TRUE]

\* Integers and strings are taken modulo the size, floats and addresses
\* modulo the odd number below it.
MainPosition(u, k) ==
  IF k[1] \in {"int", "str"} \/ SizeNode(u) = 1 THEN k[2] % SizeNode(u)
  ELSE k[2] % (SizeNode(u) - 1)

EqualKey(k, n, deadok) == n.key = k /\ (~n.dead \/ (deadok /\ Collectable(k)))

Absent == <<"absent", 0>>
RECURSIVE Walk(_, _, _, _)
Walk(u, k, deadok, i) ==
  IF EqualKey(k, u.node[i], deadok) THEN <<"node", i>>
  ELSE IF u.node[i].next = 0 THEN Absent
  ELSE Walk(u, k, deadok, i + u.node[i].next)
GetGeneric(u, k, deadok) == Walk(u, k, deadok, MainPosition(u, k))

\* luaH_getint looks in the array beyond the limit, and moves the limit there.
BeyondLimit(u, n) ==
  ~LimitEqualsASize(u) /\ (n = u.alimit + 1 \/ n \in u.alimit + 1 .. RealASize(u))
Slot(u, k) ==
  IF IsInt(k) /\ (k[2] \in 1 .. u.alimit \/ BeyondLimit(u, k[2])) THEN <<"array", k[2]>>
  ELSE GetGeneric(u, k, FALSE)
Touched(u, k) == IF IsInt(k) /\ BeyondLimit(u, k[2]) THEN [u EXCEPT !.alimit = k[2]] ELSE u

At(u, slot) ==
  CASE slot[1] = "array" -> u.array[slot[2]]
    [] slot[1] = "node" -> u.node[slot[2]].val
    [] slot[1] = "absent" -> NIL
\* luaH_get
Value(u, k) == At(u, Slot(u, Normal(k)))
Present(u, n) == Value(u, <<"int", n>>) # NIL

----------------------------------------------------------------------------
\* Insertion and rehash.

RECURSIVE Set(_, _, _)

\* arrayindex
ArrayIndex(k) == IsInt(k) /\ k[2] \in 1 .. MAXASIZE
\* How many keys 'k' with 2^(lg-1) < k <= 2^lg the table will hold with 'ek'
\* (numusearray, numusehash, countint).
NumsUse(u, ek) ==
  LET inArray == {n \in 1 .. u.alimit : u.array[n] # NIL}
      nodes   == {i \in DOMAIN u.node : u.node[i].val # NIL}
      inHash  == {u.node[i].key[2] : i \in {j \in nodes : ArrayIndex(u.node[j].key)}}
      extra   == IF ArrayIndex(ek) THEN {ek[2]} ELSE {}
      ints    == inArray \cup inHash \cup extra
  IN [upto |-> [lg \in 0 .. CeilLog2(MAXASIZE) |-> Cardinality({n \in ints : n <= 2 ^ lg})],
      na |-> Cardinality(ints), total |-> Cardinality(inArray) + Cardinality(nodes) + 1]

\* computesizes: the largest power of 2 more than half of which will be in use
ComputeSizes(use) ==
  LET fits == {lg \in DOMAIN use.upto : use.na > 2 ^ lg \div 2 /\ use.upto[lg] > 2 ^ lg \div 2}
      best == CHOOSE lg \in fits : \A m \in fits : m <= lg
  IN IF fits = {} THEN [size |-> 0, na |-> 0] ELSE [size |-> 2 ^ best, na |-> use.upto[best]]

\* setnodevector
NodeVector(size) ==
  LET n == 2 ^ CeilLog2(size)
  IN IF size = 0 THEN Dummy ELSE [node |-> [i \in 0 .. n - 1 |-> FreeNode], lastfree |-> n]
WithHash(u, h) == [u EXCEPT !.node = h.node, !.lastfree = h.lastfree]

\* The part of the array that vanishes goes to the new hash part, as if the
\* array had shrunk already.
Vanishing(u, asize, h) ==
  FoldLeft(LAMBDA v, n : IF u.array[n] = NIL THEN v ELSE Set(v, <<"int", n>>, u.array[n]),
           WithHash([u EXCEPT !.alimit = asize], h),
           [n \in 1 .. u.alimit - asize |-> asize + n])
Reinsert(u, nodes) ==
  FoldLeft(LAMBDA v, n : IF n.val = NIL THEN v ELSE Set(v, n.key, n.val),
           u, [j \in 1 .. Cardinality(DOMAIN nodes) |-> nodes[j - 1]])
\* luaH_resize
Resize(u, asize, hsize) ==
  LET old == LimitToSize(u)
      h   == NodeVector(hsize)
      new == IF asize < old.alimit THEN Vanishing(old, asize, h) ELSE WithHash(old, h)
  IN Reinsert([new EXCEPT !.alimit = asize, !.real = TRUE,
                 !.array = [n \in 1 .. asize |-> IF n <= old.alimit THEN old.array[n] ELSE NIL]],
              old.node)
Rehash(u, ek) ==
  LET v    == LimitToSize(u)
      use  == NumsUse(v, ek)
      best == ComputeSizes(use)
  IN Resize(v, best.size, use.total - best.na)

\* getfreepos: where the search for a free node ends (-1: there is none)
FreePos(u) ==
  LET free == {i \in 0 .. u.lastfree - 1 : u.node[i].key = NIL}
  IN IF IsDummy(u) \/ free = {} THEN -1 ELSE CHOOSE i \in free : \A j \in free : j <= i
\* setnodekey and the value; the node keeps its place in its chain
Placed(u, i, k, v) ==
  [u EXCEPT !.node[i] = [key |-> k, val |-> v, next |-> u.node[i].next, dead |-> FALSE]]
RECURSIVE Before(_, _, _)
Before(u, i, mp) == IF i + u.node[i].next = mp THEN i ELSE Before(u, i + u.node[i].next, mp)
Offset(n, from, to) == IF n.next = 0 THEN 0 ELSE n.next + from - to

\* The colliding node is away from home and moves to the free position.
Evicted(u, mp, f) ==
  LET prev == Before(u, MainPosition(u, u.node[mp].key), mp)
  IN [u EXCEPT !.node[prev].next = f - prev,
               !.node[f] = [u.node[mp] EXCEPT !.next = Offset(u.node[mp], mp, f)],
               !.node[mp] = FreeNode]
\* The colliding node is at home and the free position follows it.
Chained(u, mp, f) ==
  [u EXCEPT !.node[f].next = Offset(u.node[mp], mp, f), !.node[mp].next = f - mp]

MainTaken(u, k) == u.node[MainPosition(u, k)].val # NIL \/ IsDummy(u)
AtHome(u, i) == MainPosition(u, u.node[i].key) = i
NoRoom(u, k) == MainTaken(u, k) /\ FreePos(u) = -1
Searched(u) == IF IsDummy(u) THEN u ELSE [u EXCEPT !.lastfree = IF FreePos(u) = -1 THEN 0 ELSE FreePos(u)]
\* luaH_newkey
NewKey(u, k, v) ==
  LET mp == MainPosition(u, k)
      f  == FreePos(u)
  IN IF v = NIL THEN u
     ELSE IF ~MainTaken(u, k) THEN Placed(u, mp, k, v)
     ELSE IF f = -1 THEN Set(Rehash(Searched(u), k), k, v)
     ELSE IF AtHome(u, mp) THEN Placed(Chained(Searched(u), mp, f), f, k, v)
     ELSE Placed(Evicted(Searched(u), mp, f), mp, k, v)

FinishSet(u, k, slot, v) ==
  CASE slot[1] = "array" -> [u EXCEPT !.array[slot[2]] = v]
    [] slot[1] = "node" -> [u EXCEPT !.node[slot[2]].val = v]
    [] slot[1] = "absent" -> NewKey(u, k, v)
\* luaH_set
Set(u, k, v) == FinishSet(Touched(u, k), k, Slot(u, k), v)

----------------------------------------------------------------------------
\* Length and traversal.

\* binsearch in the array and in hash_search
RECURSIVE Boundary(_, _, _)
Boundary(u, i, j) ==
  LET m == (i + j) \div 2
  IN IF j - i <= 1 THEN i ELSE IF Present(u, m) THEN Boundary(u, m, j) ELSE Boundary(u, i, m)
\* hash_search: double until an absent integer is found; the greatest integer
\* is tried when doubling would overflow.
RECURSIVE HashSearch(_, _)
HashSearch(u, i) ==
  LET j == IF i <= LUA_MAXINTEGER \div 2 THEN 2 * i ELSE LUA_MAXINTEGER
  IN IF ~Present(u, j) THEN Boundary(u, i, j)
     ELSE IF i > LUA_MAXINTEGER \div 2 THEN j ELSE HashSearch(u, j)

Hinted(u, n, may) == IF may THEN [u EXCEPT !.alimit = n, !.real = FALSE] ELSE u
InArray(u, n) == u.array[n] # NIL
\* luaH_getn, case 1: 't[limit]' is empty
GetnBelow(u) ==
  LET limit == u.alimit
      b     == Boundary(u, 0, limit)
  IN IF limit >= 2 /\ InArray(u, limit - 1)
     THEN [n |-> limit - 1, t |-> Hinted(u, limit - 1, IsPow2RealASize(u) /\ ~IsPow2(limit - 1))]
     ELSE [n |-> b, t |-> Hinted(u, b, IsPow2RealASize(u) /\ b > RealASize(u) \div 2)]
\* case 3: the last element of the array is present, or there is no array
GetnHash(u) ==
  LET limit == RealASize(u)
  IN [t |-> u, n |-> IF IsDummy(u) \/ ~Present(u, limit + 1) THEN limit
                     ELSE HashSearch(u, IF limit = 0 THEN 1 ELSE limit)]
\* case 2: the array has elements after the limit
GetnAbove(u) ==
  LET size == RealASize(u)
      b    == Boundary(u, u.alimit, size)
  IN IF ~InArray(u, u.alimit + 1) THEN [n |-> u.alimit, t |-> u]
     ELSE IF ~InArray(u, size) THEN [n |-> b, t |-> [u EXCEPT !.alimit = b]]
     ELSE GetnHash(u)
Getn(u) ==
  IF u.alimit > 0 /\ ~InArray(u, u.alimit) THEN GetnBelow(u)
  ELSE IF ~LimitEqualsASize(u) THEN GetnAbove(u) ELSE GetnHash(u)

\* (mutant) a dead key is not found any more
FindIndexAlive(u, key) ==
  LET slot == GetGeneric(u, key, FALSE)
  IN IF key = NIL THEN 0
     ELSE IF IsInt(key) /\ key[2] \in 1 .. RealASize(u) THEN key[2]
     ELSE IF slot = Absent THEN -1
     ELSE slot[2] + 1 + RealASize(u)
\* findindex: where the traversal stands after 'key' (-1: invalid key)
FindIndex(u, key) ==
  LET slot == GetGeneric(u, key, TRUE)
  IN IF key = NIL THEN 0
     ELSE IF IsInt(key) /\ key[2] \in 1 .. RealASize(u) THEN key[2]
     ELSE IF slot = Absent THEN -1
     ELSE slot[2] + 1 + RealASize(u)

\* luaH_next: the keys yet to come after 'key', in their order
InOrder(S) == SetToSortSeq(S, <)
Remaining(u, key) ==
  LET i     == FindIndex(u, key)
      size  == RealASize(u)
      array == {n \in i + 1 .. size : u.array[n] # NIL}
      nodes == {n \in DOMAIN u.node : n >= i - size /\ u.node[n].val # NIL}
  IN [n \in 1 .. Cardinality(array) |-> <<"int", InOrder(array)[n]>>]
     \o [n \in 1 .. Cardinality(nodes) |-> u.node[InOrder(nodes)[n]].key]

----------------------------------------------------------------------------
\* Programs.

Idle == [on |-> FALSE, key |-> NIL, seen |-> {}]
\* luaH_new
Fresh == [array |-> <<>>, alimit |-> 0, real |-> TRUE, node |-> Dummy.node, lastfree |-> -1]
Keys == Tables[program].keys

TableInit ==
  /\ program \in DOMAIN Tables
  /\ \E s \in Tables[program].sizes : t = IF s = <<0, 0>> THEN Fresh ELSE Resize(Fresh, s[1], s[2])
  /\ content = {} /\ iter = Idle

\* A key's value is the key.  A new key ends the traversal, which could not
\* go on after it.
Assign(k) ==
  /\ t' = Set(t, Normal(k), Normal(k))
  /\ content' = content \cup {Normal(k)}
  /\ iter' = IF Normal(k) \in content THEN iter ELSE Idle
Clear(k) ==
  /\ t' = Set(t, Normal(k), NIL)
  /\ content' = content \ {Normal(k)}
  /\ UNCHANGED iter
\* The allocation of the new parts fails, and the error leaves the table as
\* it was but for the limit and the pointer to free nodes.
AssignFails(k) ==
  /\ Normal(k) \notin content /\ Slot(t, Normal(k)) = Absent /\ NoRoom(t, Normal(k))
  /\ t' = LimitToSize(Searched(t))
  /\ UNCHANGED <<content, iter>>
\* Reading an integer may move the limit.
Read(k) ==
  /\ t' = Touched(t, Normal(k)) /\ UNCHANGED <<content, iter>>
Length ==
  /\ t' = Getn(t).t /\ UNCHANGED <<content, iter>>
\* The collector visits the table: keys without a value are dead.
ClearKeys ==
  /\ t' = [t EXCEPT !.node = [i \in DOMAIN t.node |->
             [t.node[i] EXCEPT !.dead = @ \/ (Collectable(t.node[i].key) /\ t.node[i].val = NIL)]]]
  /\ UNCHANGED <<content, iter>>
Start ==
  /\ ~iter.on /\ iter' = [Idle EXCEPT !.on = TRUE] /\ UNCHANGED <<t, content>>
Advance ==
  /\ iter.on /\ UNCHANGED <<t, content>>
  /\ iter' = IF Remaining(t, iter.key) = <<>> THEN Idle
             ELSE LET k == Remaining(t, iter.key)[1] IN [iter EXCEPT !.key = k, !.seen = @ \cup {k}]

TableNext ==
  /\ \/ \E k \in Keys : Assign(k) \/ Clear(k) \/ AssignFails(k) \/ Read(k)
     \/ Length \/ ClearKeys \/ Start \/ Advance
  /\ UNCHANGED program

----------------------------------------------------------------------------
\* Properties.

IsBorder(n) ==
  \/ (n = 0 \/ <<"int", n>> \in content) /\ <<"int", n + 1>> \notin content
  \/ n = LUA_MAXINTEGER /\ <<"int", n>> \in content
\* The table answers as the map that the program made of it: every key that
\* is set is found, and no other, wherever collisions, rehashes and failed
\* rehashes have put it; the length is a border, whatever the hint; and a
\* traversal still has all the keys to come that it has not given yet, each
\* once, though they be cleared and the collector kill them meanwhile.
TableAnswers ==
  /\ \A k \in Keys : Value(t, k) = IF Normal(k) \in content THEN Normal(k) ELSE NIL
  /\ Len(t.array) = RealASize(t)
  /\ IsBorder(Getn(t).n)
  /\ iter.on => LET rest == Remaining(t, iter.key)
                IN /\ FindIndex(t, iter.key) # -1
                   /\ ToSet(rest) = content \ iter.seen
                   /\ Len(rest) = Cardinality(ToSet(rest))
=============================================================================
