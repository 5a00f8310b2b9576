------------------------- MODULE WorkbenchStore_proofs -------------------------
(***************************************************************************)
(* For every number of processes: when every call locks (append and        *)
(* update_item), the file implements Collection.                           *)
(*                                                                         *)
(* The argument.  A call that has gone past the lock holds it, and only    *)
(* one can (Owned); so what it read is what it replaces, and an unreadable *)
(* file is moved aside only while nothing was stored in it.  The ids in    *)
(* use are below the number of items, so the next id is a new one.         *)
(***************************************************************************)
EXTENDS WorkbenchStore, FiniteSetTheorems, WellFoundedInduction, TLAPS

AllLock == Kinds \subseteq { "append", "update" }

Growing == { c \in Client : Grows(op[c]) }
ToGrow == { c \in Growing : pc[c] # "unlock" }

StoreTyped ==
  /\ file.items \in Seq(C!Item)
  /\ file.state # "whole" => file.items = <<>>
  /\ pc \in [ Client -> Pc ]
  /\ op \in [ Client -> Op \cup { NoOp } ]
  /\ DOMAIN seen = Client

Owned(c) ==
  /\ holder = c <=> pc[c] \notin { "idle", "lock" }
  /\ pc[c] = "idle" <=> op[c] = NoOp
  /\ pc[c] = "quarantine" => file.state = "corrupt"
  /\ pc[c] = "replace" => seen[c] = file.items

SmallIds ==
  /\ \A i \in DOMAIN file.items : file.items[i].id =< Len(file.items)
  /\ IsFiniteSet(Growing)
  /\ Len(file.items) + Cardinality(ToGrow) =< MaxItems

StoreInv == StoreTyped /\ (\A c \in Client : Owned(c)) /\ SmallIds

-----------------------------------------------------------------------------
(* NextId is above every id in use, and no higher than it must be.          *)
LEMMA NextIdIsNew ==
  ASSUME NEW s \in Seq(C!Item), NEW n \in Nat, \A i \in DOMAIN s : s[i].id =< n
  PROVE  /\ NextId(s) \in 1..(n + 1)
         /\ \A i \in DOMAIN s : s[i].id < NextId(s)
<1> DEFINE I == Ids(s) \cup { C!NoId }
<1> DEFINE Above == { m \in Nat : \A k \in I : k =< m }
<1>1. I \subseteq 0..n /\ 0 \in I
  <2>1. \A i \in DOMAIN s : s[i] \in C!Item
    OBVIOUS
  <2>2. \A i \in DOMAIN s : s[i].id \in 0..MaxItems
    BY <2>1, Zenon DEF C!Item
  <2>3. \A i \in DOMAIN s : s[i].id \in 0..n
    BY <2>2, StoreAssumption
  <2> QED
    BY <2>3 DEF Ids, C!NoId
<1>2. n \in Above
  BY <1>1
<1>3. PICK m \in Above : \A k \in Above : ~ (<<k, m>> \in OpToRel(<, Nat))
  <2> HIDE DEF Above
  <2>1. Above \subseteq Nat /\ Above # {}
    BY <1>2 DEF Above
  <2> QED
    BY ONLY <2>1, NatLessThanWellFounded, WFMin
<1>4. m \in Nat /\ \A k \in I : k =< m
  OBVIOUS
<1>5. \A k \in Above : m =< k
  <2> SUFFICES ASSUME NEW k \in Above PROVE m =< k
    OBVIOUS
  <2>1. k \in Nat
    OBVIOUS
  <2>2. k < m => <<k, m>> \in OpToRel(<, Nat)
    BY <1>4, <2>1, Zenon DEF OpToRel
  <2>3. ~ (k < m)
    BY <1>3, <2>2, Zenon
  <2> QED
    BY <1>4, <2>1, <2>3
<1>6. m \in I
  <2> SUFFICES ASSUME m \notin I PROVE FALSE
    OBVIOUS
  <2>1. m # 0 /\ m - 1 \in Nat
    BY <1>1, <1>4
  <2>2. \A k \in I : k =< m - 1
    BY <1>1, <1>4
  <2>3. m - 1 \in Above
    BY <2>1, <2>2
  <2> QED
    BY <1>4, <1>5, <2>3
<1>7. Max(I) \in I /\ \A k \in I : Max(I) >= k
  <2>1. \E x \in I : \A y \in I : x >= y
    BY <1>1, <1>4, <1>6
  <2> HIDE DEF I
  <2> QED
    BY <2>1 DEF Max
<1>8. NextId(s) = Max(I) + 1
  BY DEF NextId
<1>9. \A i \in DOMAIN s : s[i].id \in I
  BY DEF Ids
<1>10. Max(I) \in 0..n /\ \A i \in DOMAIN s : s[i].id =< Max(I) /\ s[i].id \in 0..n
  BY <1>1, <1>7, <1>9
<1>11. PICK top : top = Max(I)
  OBVIOUS
<1>12. top \in 0..n /\ NextId(s) = top + 1
       /\ \A i \in DOMAIN s : s[i].id =< top /\ s[i].id \in 0..n
  BY <1>8, <1>10, <1>11, Zenon
<1> HIDE DEF I, Above
<1>13. NextId(s) \in 1..(n + 1)
  BY <1>12
<1>14. \A i \in DOMAIN s : s[i].id < NextId(s)
  BY <1>12
<1> QED
  BY <1>13, <1>14

-----------------------------------------------------------------------------
(* What a step of call c does.                                              *)

OthersRest(c) ==
  \A d \in Client : d # c =>
    pc'[d] = pc[d] /\ op'[d] = op[d] /\ seen'[d] = seen[d] /\ (holder' = d <=> holder = d)

LEMMA OneHolder ==
  ASSUME StoreInv, NEW c \in Client, NEW d \in Client,
         pc[c] \notin { "idle", "lock" }, pc[d] \notin { "idle", "lock" }
  PROVE  c = d
  BY DEF StoreInv, Owned

LEMMA KindsOfCalls ==
  ASSUME AllLock, StoreInv, NEW c \in Client, pc[c] # "idle"
  PROVE  op[c] \in Op /\ op[c].kind \in { "append", "update" }
<1>1. op[c] \in Op
  BY DEF StoreInv, StoreTyped, Owned
<1> QED
  BY <1>1 DEF Op, AllLock

(* Steps that store nothing.                                                *)
LEMMA NothingStored ==
  ASSUME StoreInv, NEW c \in Client, StoreTyped', file'.items = file.items,
         file'.state = "corrupt" <=> file.state = "corrupt",
         OthersRest(c), Owned(c)',
         Growing' \subseteq Growing, ToGrow' \subseteq ToGrow
  PROVE  StoreInv'
<1>1. ASSUME NEW d \in Client
      PROVE  Owned(d)'
  <2>1. CASE d = c
    BY <2>1
  <2>2. CASE d # c
    BY <2>2 DEF OthersRest, StoreInv, Owned
  <2> QED
    BY <2>1, <2>2
<1>2. SmallIds'
  <2>1. /\ IsFiniteSet(Growing) /\ Len(file.items) + Cardinality(ToGrow) =< MaxItems
        /\ Len(file.items) \in Nat /\ MaxItems \in Nat
    BY StoreAssumption DEF StoreInv, SmallIds, StoreTyped
  <2>2. ToGrow \subseteq Growing
    BY DEF ToGrow
  <2>3. IsFiniteSet(ToGrow) /\ IsFiniteSet(Growing')
    BY <2>1, <2>2, FS_Subset
  <2>4. Cardinality(ToGrow') =< Cardinality(ToGrow) /\ IsFiniteSet(ToGrow')
    BY <2>3, FS_Subset
  <2>5. Cardinality(ToGrow) \in Nat /\ Cardinality(ToGrow') \in Nat
    BY <2>3, <2>4, FS_CardinalityType
  <2>6. \A i \in DOMAIN file'.items : file'.items[i].id =< Len(file'.items)
    BY DEF StoreInv, SmallIds
  <2> QED
    BY <2>1, <2>3, <2>4, <2>5, <2>6 DEF SmallIds
<1> QED
  BY <1>1, <1>2 DEF StoreInv

LEMMA CallIsKept ==
  ASSUME AllLock, StoreInv, NEW c \in Client, NEW o \in Op, Call(c, o)
  PROVE  StoreInv'
<1>0. StoreTyped /\ Owned(c) /\ SmallIds
  BY DEF StoreInv
<1>1. Locks(o) /\ o # NoOp
  BY DEF Op, AllLock, Locks, NoOp
<1>2. /\ pc[c] = "idle" /\ op' = [ op EXCEPT ![c] = o ] /\ pc' = [ pc EXCEPT ![c] = "lock" ]
      /\ UNCHANGED <<file, holder, seen>>
  BY <1>1 DEF Call, Goto
<1>3. op'[c] = o /\ pc'[c] = "lock" /\ OthersRest(c)
  BY <1>0, <1>2 DEF StoreTyped, OthersRest
<1>4. StoreTyped'
  BY <1>0, <1>2 DEF StoreTyped, Pc
<1>5. Owned(c)'
  BY <1>0, <1>1, <1>2, <1>3 DEF Owned
<1>6. c \notin Growing
  BY <1>0, <1>2 DEF Owned, Growing, NoOp, Grows
<1>7. CASE ~ Grows(o)
  <2>1. Growing' = Growing /\ ToGrow' = ToGrow
    BY <1>2, <1>3, <1>6, <1>7 DEF Growing, ToGrow, OthersRest
  <2> QED
    BY <1>2, <1>3, <1>4, <1>5, <2>1, NothingStored
<1>8. CASE Grows(o)
  <2>1. Growing' = Growing \cup { c } /\ ToGrow' = ToGrow \cup { c } /\ c \notin ToGrow
    BY <1>2, <1>3, <1>6, <1>8 DEF Growing, ToGrow, OthersRest
  <2>2. /\ IsFiniteSet(Growing) /\ ToGrow \subseteq Growing
        /\ Len(file.items) + Cardinality(Growing) < MaxItems
    BY <1>0, <1>8 DEF SmallIds, ToGrow, Call, Room, Growing
  <2>3. IsFiniteSet(ToGrow) /\ Cardinality(ToGrow) =< Cardinality(Growing)
    BY <2>2, FS_Subset
  <2>4. /\ Cardinality(ToGrow) \in Nat /\ Cardinality(Growing) \in Nat
        /\ Len(file.items) \in Nat /\ MaxItems \in Nat
    BY <1>0, <2>2, <2>3, FS_CardinalityType, StoreAssumption DEF StoreTyped
  <2>5. IsFiniteSet(Growing') /\ Cardinality(ToGrow') = Cardinality(ToGrow) + 1
    <3>1. IsFiniteSet(Growing \cup { c })
      BY <2>2, FS_AddElement
    <3>2. Cardinality(ToGrow \cup { c }) = Cardinality(ToGrow) + 1
      BY <2>1, <2>3, FS_AddElement
    <3> QED
      BY <2>1, <3>1, <3>2
  <2>6. SmallIds'
    BY <1>0, <1>2, <2>2, <2>3, <2>4, <2>5 DEF SmallIds
  <2>7. \A d \in Client : Owned(d)'
    BY <1>2, <1>3, <1>5 DEF OthersRest, StoreInv, Owned
  <2> QED
    BY <1>4, <2>6, <2>7 DEF StoreInv
<1> QED
  BY <1>7, <1>8

LEMMA EndIsKept ==
  ASSUME StoreInv, NEW c \in Client, End(c), file' = file
  PROVE  StoreInv'
<1>0. StoreTyped /\ Owned(c)
  BY DEF StoreInv
<1>1. /\ pc' = [ pc EXCEPT ![c] = "idle" ] /\ op' = [ op EXCEPT ![c] = NoOp ]
      /\ seen' = [ seen EXCEPT ![c] = <<>> ]
      /\ holder' = IF holder = c THEN NoClient ELSE holder
  BY DEF End, Goto
<1>2. pc'[c] = "idle" /\ op'[c] = NoOp /\ OthersRest(c)
  BY <1>0, <1>1, StoreAssumption DEF StoreTyped, OthersRest
<1>3. StoreTyped'
  BY <1>0, <1>1 DEF StoreTyped, Pc
<1>4. Owned(c)'
  BY <1>1, <1>2, StoreAssumption DEF Owned
<1>5. ~ Grows(op'[c])
  BY <1>2 DEF Grows, NoOp
<1>6. Growing' \subseteq Growing /\ ToGrow' \subseteq ToGrow
  BY <1>2, <1>5 DEF Growing, ToGrow, OthersRest
<1> QED
  BY <1>2, <1>3, <1>4, <1>6, NothingStored

(* The lock is taken, the file is read, or moved aside when it is unreadable. *)
LEMMA ReadIsKept ==
  ASSUME AllLock, StoreInv, NEW c \in Client,
         \/ Acquire(c) \/ ReadDefault(c) \/ SeesFile(c) \/ Load(c) \/ LoadCorrupt(c)
         \/ Quarantine(c)
  PROVE  StoreInv' /\ file'.items = file.items
<1>0. StoreTyped /\ Owned(c)
  BY DEF StoreInv
<1>1. pc[c] \in { "lock", "exists", "load", "quarantine" }
  BY DEF Acquire, ReadDefault, SeesFile, Load, LoadCorrupt, Quarantine
<1>2. op[c].kind # "list"
  BY <1>1, KindsOfCalls
<1>3. op' = op /\ file'.items = file.items
  BY <1>0, <1>2 DEF Acquire, ReadDefault, SeesFile, Load, LoadCorrupt, Quarantine, Return, NoFile,
              StoreTyped, Owned
<1>4. \/ pc[c] = "lock" /\ holder = NoClient /\ holder' = c /\ file' = file /\ seen' = seen
         /\ pc' = [ pc EXCEPT ![c] = "exists" ]
      \/ pc[c] # "lock" /\ holder' = holder /\ file' = file /\ seen' = seen
         /\ \/ pc' = [ pc EXCEPT ![c] = "load" ]
            \/ pc' = [ pc EXCEPT ![c] = "quarantine" ] /\ file.state = "corrupt"
      \/ pc[c] # "lock" /\ holder' = holder /\ file' = file
         /\ pc' = [ pc EXCEPT ![c] = "replace" ] /\ seen' = [ seen EXCEPT ![c] = file.items ]
      \/ pc[c] = "quarantine" /\ holder' = holder /\ file' = NoFile /\ file.items = <<>>
         /\ pc' = [ pc EXCEPT ![c] = "replace" ] /\ seen' = [ seen EXCEPT ![c] = file.items ]
  <2>1. CASE Acquire(c)
    BY <2>1 DEF Acquire, Goto
  <2>2. CASE SeesFile(c) \/ LoadCorrupt(c)
    BY <2>2 DEF SeesFile, LoadCorrupt, Goto
  <2>3. CASE ReadDefault(c)
    BY <1>0, <1>2, <2>3 DEF ReadDefault, Return, Goto, StoreTyped
  <2>4. CASE Load(c)
    BY <1>2, <2>4 DEF Load, Return, Goto
  <2>5. CASE Quarantine(c)
    BY <1>0, <1>2, <2>5 DEF Quarantine, Return, Goto, StoreTyped, Owned
  <2> QED
    BY <2>1, <2>2, <2>3, <2>4, <2>5
<1>5. OthersRest(c)
  BY <1>0, <1>3, <1>4, StoreAssumption DEF OthersRest, StoreTyped
<1>6. /\ pc' \in [ Client -> Pc ] /\ DOMAIN seen' = Client
      /\ pc'[c] \in { "exists", "load", "quarantine", "replace" }
      /\ pc'[c] = "quarantine" => file' = file /\ file.state = "corrupt"
      /\ pc'[c] = "replace" => seen'[c] = file.items
      /\ holder' = c
  BY <1>0, <1>1, <1>4 DEF StoreTyped, Pc, Owned
<1>7. StoreTyped'
  <2>1. file' = NoFile => file'.items = <<>> /\ file.items = <<>>
    BY <1>3 DEF NoFile
  <2> QED
    BY <1>0, <1>3, <1>4, <1>6, <2>1 DEF StoreTyped
<1>8. Owned(c)'
  BY <1>0, <1>1, <1>3, <1>6 DEF Owned
<1>9. Growing' = Growing /\ ToGrow' = ToGrow
  BY <1>1, <1>3, <1>5, <1>6 DEF Growing, ToGrow, OthersRest
<1>10. ASSUME NEW d \in Client
       PROVE  Owned(d)'
  <2>1. CASE d = c
    BY <1>8, <2>1
  <2>2. CASE d # c
    <3>1. Owned(d)
      BY DEF StoreInv
    <3>2. pc[d] = "quarantine" => pc[c] = "lock"
      BY <1>1, <2>2, OneHolder
    <3>3. pc[d] = "quarantine" => file' = file
      BY <1>4, <3>2
    <3> QED
      BY <1>3, <1>5, <2>2, <3>1, <3>3 DEF OthersRest, Owned
  <2> QED
    BY <2>1, <2>2
<1>11. SmallIds'
  BY <1>3, <1>9 DEF StoreInv, SmallIds
<1> QED
  BY <1>3, <1>7, <1>10, <1>11 DEF StoreInv

(* append stores one item more, under a new id.                             *)
LEMMA AppendedIsAdded ==
  ASSUME StoreTyped, SmallIds, NEW k \in Key, Len(file.items) < MaxItems,
         file'.items = Appended(file.items, k)
  PROVE  /\ C!Add(k) /\ file'.items \in Seq(C!Item) /\ Len(file'.items) = Len(file.items) + 1
         /\ \A i \in DOMAIN file'.items : file'.items[i].id =< Len(file'.items)
<1> PICK s \in Seq(C!Item) : s = file.items
  BY DEF StoreTyped
<1> PICK n : n = NextId(s)
  OBVIOUS
<1>1. Len(s) \in Nat /\ Len(s) < MaxItems /\ MaxItems \in Nat
      /\ \A i \in DOMAIN s : s[i].id =< Len(s)
  BY StoreAssumption DEF SmallIds
<1>2. n \in 1..(Len(s) + 1) /\ \A i \in DOMAIN s : s[i].id < n
  BY <1>1, NextIdIsNew
<1>3. n \in 1..MaxItems
  BY <1>1, <1>2
<1> DEFINE item == [ id |-> n, key |-> k, val |-> "new" ]
<1>4. item \in C!Item
  BY <1>3, <1>1 DEF C!Item, C!Value
<1>5. file'.items = Append(s, item)
  BY DEF Appended
<1>6. Append(s, item) \in Seq(C!Item) /\ Len(Append(s, item)) = Len(s) + 1
  BY <1>4
<1>7. ASSUME NEW i \in DOMAIN Append(s, item)
      PROVE  Append(s, item)[i].id =< Len(s) + 1
  <2>1. CASE i \in DOMAIN s
    <3>1. Append(s, item)[i] = s[i] /\ s[i].id < n
      BY <1>2, <1>4, <2>1
    <3>2. s[i] \in C!Item
      BY <2>1
    <3>3. s[i].id \in Nat
      BY <3>2, <1>1 DEF C!Item
    <3> QED
      BY <1>1, <1>2, <3>1, <3>3
  <2>2. CASE i \notin DOMAIN s
    <3>1. Append(s, item)[i] = item
      BY <1>4, <2>2
    <3> QED
      BY <1>1, <1>2, <3>1
  <2> QED
    BY <2>1, <2>2
<1>8. C!Add(k)
  BY <1>2, <1>3, <1>5 DEF C!Add
<1> QED
  BY <1>5, <1>6, <1>7, <1>8

(* update_item changes one item, or none when the id is not there.          *)
LEMMA UpdatedIsUpdate ==
  ASSUME StoreTyped, SmallIds, NEW n \in 1..MaxItems, file'.items = Updated(file.items, n)
  PROVE  /\ file'.items = file.items \/ \E i \in DOMAIN file.items : C!Update(i)
         /\ file'.items \in Seq(C!Item) /\ Len(file'.items) = Len(file.items)
         /\ \A i \in DOMAIN file'.items : file'.items[i].id =< Len(file'.items)
<1> PICK s \in Seq(C!Item) : s = file.items
  BY DEF StoreTyped
<1> DEFINE I == { i \in DOMAIN s : s[i].id = n }
<1> DEFINE IsFirst(i) == i \in I /\ \A j \in I : i <= j
<1> DEFINE new == [ i \in DOMAIN s |-> IF IsFirst(i) THEN [ s[i] EXCEPT !.val = "updated" ]
                                       ELSE s[i] ]
<1>1. file'.items = new
  BY DEF Updated, SetFirst
<1>2. \A i \in DOMAIN s : s[i] \in C!Item
  OBVIOUS
<1>3. \A i \in DOMAIN s : new[i] \in C!Item /\ new[i].id = s[i].id
  BY <1>2 DEF C!Item, C!Value
<1>4. new \in Seq(C!Item) /\ Len(new) = Len(s) /\ DOMAIN new = DOMAIN s
  <2>1. Len(s) \in Nat /\ DOMAIN s = 1..Len(s)
    OBVIOUS
  <2>2. new \in [ DOMAIN s -> C!Item ]
    BY <1>3, Zenon
  <2>3. new \in [ 1..Len(s) -> C!Item ]
    BY <2>1, <2>2
  <2> HIDE DEF new
  <2> QED
    BY <2>1, <2>3
<1>5. \A i \in DOMAIN s : s[i].id =< Len(s)
  BY DEF SmallIds
<1>6. new = s \/ \E i \in DOMAIN s : C!Update(i)
  <2>1. CASE \A i \in DOMAIN s : ~ IsFirst(i)
    BY <2>1
  <2>2. ASSUME NEW i \in DOMAIN s, IsFirst(i)
        PROVE  C!Update(i)
    <3>1. \A j \in DOMAIN s : IsFirst(j) => j = i
      BY <2>2
    <3>2. new = [ s EXCEPT ![i].val = "updated" ]
      BY <2>2, <3>1
    <3>3. s[i].id # C!NoId
      BY <2>2, StoreAssumption DEF C!NoId
    <3> QED
      BY <1>1, <3>2, <3>3 DEF C!Update
  <2> QED
    BY <2>1, <2>2
<1> QED
  BY <1>1, <1>3, <1>4, <1>5, <1>6

LEMMA ReplaceIsKept ==
  ASSUME AllLock, StoreInv, NEW c \in Client, Replace(c)
  PROVE  StoreInv' /\ (C!Next \/ file'.items = file.items)
<1>0. StoreTyped /\ Owned(c) /\ SmallIds
  BY DEF StoreInv
<1>1. /\ pc[c] = "replace" /\ holder = c /\ seen[c] = file.items
      /\ op[c] \in Op /\ op[c].kind \in { "append", "update" }
  BY <1>0, KindsOfCalls DEF Replace, Owned
<1>2. /\ file' = Whole(Changed(op[c], file.items)) /\ pc' = [ pc EXCEPT ![c] = "unlock" ]
      /\ UNCHANGED <<holder, op, seen>>
  BY <1>1 DEF Replace, Goto
<1>3. pc'[c] = "unlock" /\ OthersRest(c)
  BY <1>0, <1>2 DEF StoreTyped, OthersRest
<1>4. file'.state = "whole" /\ file'.items = Changed(op[c], file.items)
  BY <1>2 DEF Whole
<1>5. Growing' = Growing /\ ToGrow' = ToGrow \ { c }
  BY <1>2, <1>3 DEF Growing, ToGrow, OthersRest
<1>6. /\ IsFiniteSet(Growing) /\ IsFiniteSet(ToGrow) /\ IsFiniteSet(ToGrow \ { c })
      /\ Cardinality(ToGrow) \in Nat /\ Cardinality(ToGrow \ { c }) \in Nat
      /\ Cardinality(ToGrow \ { c }) = IF c \in ToGrow THEN Cardinality(ToGrow) - 1
                                       ELSE Cardinality(ToGrow)
      /\ Len(file.items) \in Nat /\ MaxItems \in Nat
      /\ Len(file.items) + Cardinality(ToGrow) =< MaxItems
  <2>1. IsFiniteSet(Growing) /\ ToGrow \subseteq Growing
    BY <1>0 DEF SmallIds, ToGrow
  <2>2. IsFiniteSet(ToGrow)
    BY <2>1, FS_Subset
  <2>3. IsFiniteSet(ToGrow \ { c })
        /\ Cardinality(ToGrow \ { c }) = IF c \in ToGrow THEN Cardinality(ToGrow) - 1
                                         ELSE Cardinality(ToGrow)
    BY <2>2, FS_RemoveElement
  <2> QED
    BY <1>0, <2>1, <2>2, <2>3, FS_CardinalityType, StoreAssumption DEF SmallIds, StoreTyped
<1>7. /\ C!Next \/ file'.items = file.items
      /\ file'.items \in Seq(C!Item)
      /\ Len(file'.items) + Cardinality(ToGrow') =< MaxItems
      /\ \A i \in DOMAIN file'.items : file'.items[i].id =< Len(file'.items)
  <2>1. CASE op[c].kind = "append"
    <3>1. c \in ToGrow
      BY <1>1, <2>1 DEF ToGrow, Growing, Grows
    <3>2. Cardinality(ToGrow) # 0
      BY <1>6, <3>1, FS_EmptySet
    <3>3. Len(file.items) < MaxItems
      BY <1>6, <3>2
    <3>4. op[c].key \in Key /\ file'.items = Appended(file.items, op[c].key)
      BY <1>1, <1>4, <2>1 DEF Op, Changed
    <3>5. /\ C!Add(op[c].key) /\ file'.items \in Seq(C!Item)
          /\ Len(file'.items) = Len(file.items) + 1
          /\ \A i \in DOMAIN file'.items : file'.items[i].id =< Len(file'.items)
      BY <1>0, <3>3, <3>4, AppendedIsAdded
    <3> QED
      BY <1>5, <1>6, <3>1, <3>4, <3>5 DEF C!Next
  <2>2. CASE op[c].kind = "update"
    <3>1. op[c].id \in 1..MaxItems /\ file'.items = Updated(file.items, op[c].id)
      BY <1>1, <1>4, <2>2 DEF Op, Changed
    <3>2. /\ file'.items = file.items \/ \E i \in DOMAIN file.items : C!Update(i)
          /\ file'.items \in Seq(C!Item) /\ Len(file'.items) = Len(file.items)
          /\ \A i \in DOMAIN file'.items : file'.items[i].id =< Len(file'.items)
      BY <1>0, <3>1, UpdatedIsUpdate
    <3>3. Cardinality(ToGrow') =< Cardinality(ToGrow) /\ Cardinality(ToGrow') \in Nat
      BY <1>5, <1>6
    <3> QED
      BY <1>6, <3>2, <3>3 DEF C!Next
  <2> QED
    BY <1>1, <2>1, <2>2
<1>8. StoreTyped'
  BY <1>0, <1>2, <1>4, <1>7 DEF StoreTyped, Pc
<1>9. ASSUME NEW d \in Client
      PROVE  Owned(d)'
  <2>1. CASE d = c
    BY <1>0, <1>1, <1>2, <1>3, <2>1 DEF Owned
  <2>2. CASE d # c
    <3>1. Owned(d) /\ pc[d] \in { "idle", "lock" }
      BY <1>1, <2>2, OneHolder DEF StoreInv
    <3> QED
      BY <1>3, <2>2, <3>1 DEF Owned, OthersRest
  <2> QED
    BY <2>1, <2>2
<1>10. SmallIds'
  BY <1>5, <1>6, <1>7 DEF SmallIds
<1> QED
  BY <1>7, <1>8, <1>9, <1>10 DEF StoreInv

-----------------------------------------------------------------------------
LEMMA StoreInvInitially == Init => StoreInv
<1> SUFFICES ASSUME Init PROVE StoreInv
  OBVIOUS
<1>1. file.items = <<>> /\ StoreTyped
  <2>1. file.items = <<>>
    BY DEF Init
  <2>2. file.items \in Seq(C!Item)
    BY <2>1
  <2>3. pc \in [ Client -> Pc ]
    BY DEF Init, Pc
  <2>4. op \in [ Client -> Op \cup { NoOp } ] /\ DOMAIN seen = Client
    BY DEF Init
  <2> QED
    BY <2>1, <2>2, <2>3, <2>4 DEF StoreTyped
<1>2. \A c \in Client : Owned(c)
  BY StoreAssumption DEF Init, Owned
<1>3. Growing = {} /\ ToGrow = {}
  BY DEF Init, Growing, ToGrow, Grows, NoOp
<1>4. SmallIds
  BY <1>1, <1>3, FS_EmptySet, StoreAssumption DEF SmallIds
<1> QED
  BY <1>1, <1>2, <1>4 DEF StoreInv

LEMMA StoreStep ==
  ASSUME AllLock, StoreInv, [Next]_storeVars
  PROVE  StoreInv' /\ (C!Next \/ file'.items = file.items)
<1>1. CASE UNCHANGED <<file, holder, pc, op, seen>>
  BY <1>1 DEF StoreInv, StoreTyped, Owned, SmallIds, Growing, ToGrow
<1>2. ASSUME NEW c \in Client, NEW o \in Op, Call(c, o)
      PROVE  StoreInv' /\ file' = file
  BY <1>2, CallIsKept DEF Call
<1>3. ASSUME NEW c \in Client, Step(c) \/ Crash(c)
      PROVE  StoreInv' /\ (C!Next \/ file'.items = file.items)
  <2>1. CASE LockTimeout(c) \/ LoadMissing(c) \/ WriteFails(c) \/ Finish(c) \/ Crash(c)
    BY <2>1, EndIsKept DEF LockTimeout, LoadMissing, WriteFails, Finish, Crash
  <2> QED
    BY <1>3, <2>1, ReadIsKept, ReplaceIsKept DEF Step
<1> QED
  BY <1>1, <1>2, <1>3 DEF Next, Tick, storeVars

(* When every call takes the lock, however many processes call and crash,   *)
(* each call acts as if it were one step.                                   *)
THEOREM LockedCallsAct ==
  ASSUME AllLock
  PROVE  Spec => [][LockedCallsAreAtomic]_storeVars
<1>1. StoreInv /\ [Next]_storeVars => StoreInv' /\ [LockedCallsAreAtomic]_storeVars
  BY StoreStep DEF LockedCallsAreAtomic
<1> QED
  BY <1>1, StoreInvInitially, PTL DEF Spec

(* The file implements the abstract collection: no item is lost and no id   *)
(* is given twice.                                                          *)
THEOREM StoreImplementsCollection ==
  ASSUME AllLock
  PROVE  Spec => ImplementsCollection
<1>1. Init => C!Init
  BY DEF Init, C!Init
<1>2. StoreInv /\ [Next]_storeVars => StoreInv' /\ [C!Next]_(file.items)
  BY StoreStep
<1> QED
  BY <1>1, <1>2, StoreInvInitially, PTL DEF Spec, ImplementsCollection, C!Spec
=============================================================================
