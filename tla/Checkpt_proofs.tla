-------------------------- MODULE Checkpt_proofs --------------------------
(***************************************************************************)
(* Proof that ids are unique over any number of restarts, that no pointer  *)
(* of a running process is stale and no step of the service fails, and     *)
(* that a restart restores what a checkpoint saved, for all heaps, file    *)
(* names and bounds (Checkpt).                                             *)
(*                                                                         *)
(* Uniqueness of the ids in the registry is not inductive: restore_objects *)
(* builds the registry from a file, so the files have to be in order too,  *)
(* and while one is written or read the part that is done must agree with  *)
(* the other side.  IdInvariant adds this.                                 *)
(*                                                                         *)
(* Nor is it inductive that pointers are current: a restored pointer is    *)
(* right because the file was, and the file was because the memory it was  *)
(* written from had every pointer lead to an object that was registered    *)
(* early enough (Sound).  PointerInvariant says this of the memory and of  *)
(* every complete file alike, and of the half that is done in between.     *)
(***************************************************************************)
EXTENDS Checkpt, TLAPS, WellFoundedInduction

IsSequence(s) == \E S : s \in Seq(S)

(* The first n ids of two lists are the same.                              *)
SameIds(s, t, n) == \A i \in 1 .. n : s[i].id = t[i].id

IsList(s) == IsSequence(s) /\ \A i \in DOMAIN s : s[i].id \in Nat

FileType ==
  /\ DOMAIN file = Name
  /\ \A n \in Name :
       /\ file[n] = [nodes |-> file[n].nodes, next_id |-> file[n].next_id,
                     complete |-> file[n].complete]
       /\ IsList(file[n].nodes) /\ file[n].next_id \in Nat
  /\ name \in Name

RegistryType == IsList(registry) /\ next_id \in Nat /\ at \in Nat \ {0}

Half ==
  /\ phase = "write" =>
       /\ file[name].next_id = next_id
       /\ Len(file[name].nodes) = at - 1 /\ at - 1 <= Len(registry)
       /\ SameIds(file[name].nodes, registry, at - 1)
  /\ phase = "restore" =>
       /\ file[name].next_id = next_id
       /\ Len(registry) = at - 1 /\ at - 1 <= Len(file[name].nodes)
       /\ SameIds(registry, file[name].nodes, at - 1)

IdInvariant == FileType /\ RegistryType /\ Half /\ IdsUnique

(* The empty list is in order.                                             *)
LEMMA EmptyList ==
  ASSUME NEW b
  PROVE  IsList(<<>>) /\ Increasing(<<>>, b) /\ Len(<<>>) = 0
  <1>1. << >> \in Seq({}) OBVIOUS
  <1> QED BY <1>1 DEF IsList, IsSequence, Increasing

(* Appending a node keeps a list a list, and its nodes.                    *)
LEMMA AppendList ==
  ASSUME NEW s, IsList(s), NEW e, e.id \in Nat
  PROVE  /\ IsList(Append(s, e))
         /\ Len(s) \in Nat /\ DOMAIN s = 1 .. Len(s)
         /\ Len(Append(s, e)) = Len(s) + 1
         /\ DOMAIN Append(s, e) = 1 .. Len(s) + 1
         /\ \A i \in 1 .. Len(s) : Append(s, e)[i] = s[i]
         /\ Append(s, e)[Len(s) + 1] = e
  <1>1. PICK S : s \in Seq(S) BY DEF IsList, IsSequence
  <1> DEFINE T == S \cup {e}
  <1>2. s \in Seq(T) /\ e \in T BY <1>1
  <1> HIDE DEF T
  <1>3. Append(s, e) \in Seq(T) BY <1>2
  <1>4. /\ Len(s) \in Nat /\ DOMAIN s = 1 .. Len(s)
        /\ Len(Append(s, e)) = Len(s) + 1
        /\ DOMAIN Append(s, e) = 1 .. Len(s) + 1
        /\ \A i \in 1 .. Len(s) : Append(s, e)[i] = s[i]
        /\ Append(s, e)[Len(s) + 1] = e
    BY <1>2, <1>3
  <1>5. \A i \in DOMAIN Append(s, e) : Append(s, e)[i].id \in Nat
    <2> SUFFICES ASSUME NEW i \in 1 .. Len(s) + 1
                 PROVE  Append(s, e)[i].id \in Nat
      BY <1>4
    <2>1. CASE i = Len(s) + 1 BY <1>4, <2>1
    <2>2. CASE i \in 1 .. Len(s) BY <1>4, <2>2 DEF IsList
    <2> QED BY <1>4, <2>1, <2>2
  <1> QED BY <1>3, <1>4, <1>5 DEF IsList, IsSequence

(* A node with an id above all others keeps a list in order.               *)
LEMMA AppendIncreasing ==
  ASSUME NEW s, IsList(s), NEW e, e.id \in Nat, NEW b \in Nat, e.id < b,
         \A i \in DOMAIN s : s[i].id < e.id,
         \A i, j \in DOMAIN s : i < j => s[i].id < s[j].id
  PROVE  Increasing(Append(s, e), b)
  <1> DEFINE t == Append(s, e)
  <1>1. /\ Len(s) \in Nat /\ DOMAIN s = 1 .. Len(s) /\ DOMAIN t = 1 .. Len(s) + 1
        /\ \A i \in 1 .. Len(s) : t[i] = s[i]
        /\ t[Len(s) + 1] = e
    BY AppendList
  <1>2. \A i \in DOMAIN s : s[i].id \in Nat BY DEF IsList
  <1> HIDE DEF t
  <1>3. \A i \in DOMAIN t : t[i].id < b BY <1>1, <1>2
  <1>4. \A i, j \in DOMAIN t : i < j => t[i].id < t[j].id BY <1>1, <1>2
  <1> QED BY <1>3, <1>4 DEF Increasing, t

(* Taking a node out keeps a list a list and in order.                     *)
LEMMA WithoutIncreasing ==
  ASSUME NEW s, IsList(s), NEW k \in DOMAIN s, NEW b, Increasing(s, b)
  PROVE  IsList(Without(s, k)) /\ Increasing(Without(s, k), b)
  <1> DEFINE t == Without(s, k)
  <1>1. PICK S : s \in Seq(S) BY DEF IsList, IsSequence
  <1>2. /\ Len(s) \in Nat /\ DOMAIN s = 1 .. Len(s) BY <1>1
  <1>3. /\ DOMAIN t = 1 .. Len(s) - 1
        /\ \A i \in DOMAIN t : t[i] = s[IF i < k THEN i ELSE i + 1]
        /\ \A i \in DOMAIN t : (IF i < k THEN i ELSE i + 1) \in DOMAIN s
    BY <1>2 DEF Without
  <1>4. t \in Seq(S)
    <2>1. t = [i \in 1 .. Len(s) - 1 |-> s[IF i < k THEN i ELSE i + 1]]
      BY DEF Without
    <2>2. \A i \in 1 .. Len(s) - 1 : s[IF i < k THEN i ELSE i + 1] \in S
      BY <1>1, <1>2, <1>3
    <2>3. Len(s) - 1 \in Nat BY <1>2
    <2> QED BY <2>1, <2>2, <2>3
  <1> HIDE DEF t
  <1>5. \A i \in DOMAIN t : t[i].id \in Nat BY <1>2, <1>3 DEF IsList
  <1>6. \A i \in DOMAIN t : t[i].id < b BY <1>2, <1>3 DEF Increasing
  <1>7. \A i, j \in DOMAIN t : i < j => t[i].id < t[j].id
    BY <1>2, <1>3 DEF Increasing
  <1> QED BY <1>4, <1>5, <1>6, <1>7 DEF IsList, IsSequence, Increasing, t
---------------------------------------------------------------------------
(* A set of numbers has a least one.                                       *)
LEMMA LeastOf ==
  ASSUME NEW T, T \subseteq Nat, T # {}
  PROVE  \E x \in T : \A y \in T : x <= y
  <1> DEFINE R == OpToRel(<, Nat)
  <1>1. IsWellFoundedOn(R, Nat) BY NatLessThanWellFounded
  <1> HIDE DEF R
  <1>2. PICK x \in T : \A y \in T : ~ (<<y, x>> \in R) BY <1>1, WFMin
  <1>3. \A y \in T : ~ (y < x) BY <1>2 DEF R, OpToRel
  <1> QED BY <1>2, <1>3

(* Initially there is nothing.                                             *)
LEMMA InitIds == Init => IdInvariant
  <1> SUFFICES ASSUME Init PROVE IdInvariant OBVIOUS
  <1>1. IsList(<<>>) /\ \A b : Increasing(<<>>, b) BY EmptyList
  <1>2. FileType BY <1>1, NameAssumption DEF Init, FileType, NoFile
  <1>3. RegistryType BY <1>1 DEF Init, RegistryType
  <1>4. IdsUnique BY <1>1 DEF Init, IdsUnique, NoFile
  <1> QED BY <1>2, <1>3, <1>4 DEF Init, IdInvariant, Half

(* An action that leaves lists, counts and the phases write and restore    *)
(* alone.                                                                  *)
LEMMA Untouched ==
  ASSUME IdInvariant, UNCHANGED <<registry, next_id, file, name>>,
         at' \in Nat \ {0},
         phase' = "write" => phase = "write" /\ at' = at,
         phase' = "restore" => phase = "restore" /\ at' = at
  PROVE  IdInvariant'
  <1>1. FileType' /\ RegistryType' BY DEF IdInvariant, FileType, RegistryType
  <1>2. IdsUnique' BY DEF IdInvariant, IdsUnique
  <1>3. Half' BY DEF IdInvariant, Half
  <1> QED BY <1>1, <1>2, <1>3 DEF IdInvariant

(* register_object keeps the ids in order.                                 *)
LEMMA Registers ==
  ASSUME IdInvariant, NEW o, register_object(o), UNCHANGED <<file, name, at>>,
         phase' \notin {"write", "restore"}
  PROVE  IdInvariant'
  <1> DEFINE e == Node(next_id, o)
  <1>1. e.id = next_id /\ next_id \in Nat /\ next_id' = next_id + 1
        /\ registry' = Append(registry, e)
    BY DEF Node, register_object, IdInvariant, RegistryType
  <1>2. IsList(registry) /\ Increasing(registry, next_id)
    BY DEF IdInvariant, RegistryType, IdsUnique
  <1> HIDE DEF e
  <1>3. IsList(registry') BY <1>1, <1>2, AppendList
  <1>4. Increasing(registry', next_id')
    BY <1>1, <1>2, AppendIncreasing DEF Increasing
  <1>5. FileType' BY DEF IdInvariant, FileType
  <1>6. RegistryType' BY <1>1, <1>3 DEF IdInvariant, RegistryType
  <1>7. IdsUnique' BY <1>4 DEF IdInvariant, IdsUnique
  <1> QED BY <1>5, <1>6, <1>7 DEF IdInvariant, Half

(* unregister_object keeps the ids in order.                               *)
LEMMA Unregisters ==
  ASSUME IdInvariant, NEW o, NEW then, NEW memory, Unregister(o, then, memory),
         then \notin {"write", "restore"}
  PROVE  IdInvariant'
  <1>1. CASE IndexOf(o) = 0
    <2>1. Fails BY <1>1 DEF Unregister
    <2> QED BY <2>1, Untouched DEF Fails, IdInvariant, RegistryType
  <1>2. CASE IndexOf(o) # 0
    <2>1. /\ registry' = Without(registry, IndexOf(o))
          /\ phase' = then /\ UNCHANGED <<next_id, file, name, at>>
      BY <1>2 DEF Unregister, unregister_object
    <2>2. IndexOf(o) \in DOMAIN registry
      <3> DEFINE at_o == {i \in DOMAIN registry : registry[i].obj = o}
      <3>1. at_o # {} BY <1>2 DEF IndexOf
      <3>2. IsList(registry) BY DEF IdInvariant, RegistryType
      <3>3. DOMAIN registry \subseteq Nat
        <4>1. PICK S : registry \in Seq(S) BY <3>2 DEF IsList, IsSequence
        <4> QED BY <4>1
      <3>4. \E i \in at_o : \A j \in at_o : i <= j
        <4>1. at_o \subseteq Nat BY <3>3
        <4> HIDE DEF at_o
        <4>2. PICK i \in at_o : \A j \in at_o : i <= j
          BY <3>1, <4>1, LeastOf
        <4> QED BY <4>2
      <3>5. IndexOf(o) = CHOOSE i \in at_o : \A j \in at_o : i <= j
        BY <3>1 DEF IndexOf
      <3>6. IndexOf(o) \in at_o BY <3>4, <3>5
      <3> QED BY <3>6
    <2>3. IsList(registry') /\ Increasing(registry', next_id)
      BY <2>1, <2>2, WithoutIncreasing DEF IdInvariant, RegistryType, IdsUnique
    <2>4. FileType' BY <2>1 DEF IdInvariant, FileType
    <2>5. RegistryType' BY <2>1, <2>3 DEF IdInvariant, RegistryType
    <2>6. IdsUnique' BY <2>1, <2>3 DEF IdInvariant, IdsUnique
    <2> QED BY <2>1, <2>4, <2>5, <2>6 DEF IdInvariant, Half
  <1> QED BY <1>1, <1>2
---------------------------------------------------------------------------
(* A process that starts from scratch has two ids, in order.               *)
LEMMA StartIds == ASSUME IdInvariant, StartUp PROVE IdInvariant'
  <1>1. PICK a : registry' = <<Node(1, World), Node(2, a)>> BY DEF StartUp
  <1> DEFINE s == registry'
             T == {Node(1, World), Node(2, a)}
  <1>2. s \in Seq(T) /\ Len(s) = 2 /\ DOMAIN s = 1 .. 2 BY <1>1
  <1>3. s[1].id = 1 /\ s[2].id = 2 BY <1>1 DEF Node
  <1>4. IsList(s) BY <1>2, <1>3 DEF IsList, IsSequence
  <1>5. Increasing(s, 3)
    <2> HIDE DEF s
    <2>1. \A i \in 1 .. 2 : s[i].id = i BY <1>3
    <2> QED BY <2>1, <1>2 DEF Increasing
  <1>6. FileType' BY DEF StartUp, IdInvariant, FileType
  <1>7. RegistryType' BY <1>4 DEF StartUp, IdInvariant, RegistryType
  <1>8. IdsUnique' BY <1>5 DEF StartUp, IdInvariant, IdsUnique
  <1> QED BY <1>6, <1>7, <1>8 DEF IdInvariant, Half, StartUp

(* A file that is opened is empty and has the process' next id.            *)
LEMMA BeginCheckptIds ==
  ASSUME IdInvariant, NEW n \in Name, BeginCheckpt(n) PROVE IdInvariant'
  <1>1. IsList(<<>>) /\ (\A b : Increasing(<<>>, b)) /\ Len(<<>>) = 0
    BY EmptyList
  <1>2. DOMAIN file = Name /\ DOMAIN file' = Name
    BY DEF BeginCheckpt, IdInvariant, FileType
  <1>3. file'[n] = [nodes |-> <<>>, next_id |-> next_id, complete |-> FALSE]
    BY <1>2 DEF BeginCheckpt, NoFile
  <1>4. \A m \in Name \ {n} : file'[m] = file[m] BY <1>2 DEF BeginCheckpt
  <1>5. FileType'
    BY <1>1, <1>2, <1>3, <1>4 DEF BeginCheckpt, IdInvariant, FileType, RegistryType
  <1>6. RegistryType' BY DEF BeginCheckpt, IdInvariant, RegistryType
  <1>7. IdsUnique' BY <1>1, <1>3, <1>4 DEF BeginCheckpt, IdInvariant, IdsUnique
  <1>8. Half'
    <2>1. \E S : registry \in Seq(S)
      BY DEF IdInvariant, RegistryType, IsList, IsSequence
    <2>2. Len(registry) \in Nat BY <2>1
    <2> QED BY <1>1, <1>3, <2>2 DEF BeginCheckpt, Half, SameIds
  <1> QED BY <1>5, <1>6, <1>7, <1>8 DEF IdInvariant

(* The next node that is written has the next id of the registry.          *)
LEMMA CheckptObjectIds ==
  ASSUME IdInvariant, CheckptObject PROVE IdInvariant'
  <1> DEFINE node == registry[at]
             e == [id |-> node.id, obj |-> Written(heap[node.obj])]
             s == file[name].nodes
  <1>1. CASE Fails
    BY <1>1, Untouched DEF Fails, IdInvariant, RegistryType
  <1>2. CASE ~ Fails
    <2>1. /\ phase = "write" /\ at <= Len(registry)
          /\ file' = [file EXCEPT ![name].nodes = Append(@, e)]
          /\ at' = at + 1 /\ UNCHANGED <<phase, registry, next_id, name>>
      BY <1>2 DEF CheckptObject
    <2>2. /\ Len(registry) \in Nat /\ DOMAIN registry = 1 .. Len(registry)
          /\ at \in 1 .. Len(registry) /\ at \in Nat
      <3>1. PICK S : registry \in Seq(S)
        BY DEF IdInvariant, RegistryType, IsList, IsSequence
      <3> QED BY <3>1, <2>1 DEF IdInvariant, RegistryType
    <2>3. e.id = registry[at].id /\ e.id \in Nat /\ e.id < next_id
      BY <2>2 DEF IdInvariant, RegistryType, IsList, IdsUnique, Increasing
    <2>4. /\ name \in Name /\ DOMAIN file = Name /\ IsList(s)
          /\ file[name] = [nodes |-> s, next_id |-> file[name].next_id,
                           complete |-> file[name].complete]
      BY DEF IdInvariant, FileType
    <2> HIDE DEF e
    <2>5. /\ DOMAIN file' = Name
          /\ file'[name] = [nodes |-> Append(s, e), next_id |-> file[name].next_id,
                            complete |-> file[name].complete]
          /\ \A m \in Name \ {name} : file'[m] = file[m]
      BY <2>1, <2>4
    <2>6. /\ file[name].next_id = next_id /\ Len(s) = at - 1
          /\ \A i \in 1 .. at - 1 : s[i].id = registry[i].id
      BY <2>1 DEF IdInvariant, Half, SameIds
    <2> HIDE DEF s
    <2>7. /\ IsList(Append(s, e)) /\ Len(Append(s, e)) = at
          /\ DOMAIN s = 1 .. at - 1
          /\ \A i \in 1 .. at - 1 : Append(s, e)[i] = s[i]
          /\ Append(s, e)[at] = e
      <3>1. /\ IsList(Append(s, e)) /\ DOMAIN s = 1 .. Len(s)
            /\ Len(Append(s, e)) = Len(s) + 1
            /\ \A i \in 1 .. Len(s) : Append(s, e)[i] = s[i]
            /\ Append(s, e)[Len(s) + 1] = e
        BY <2>3, <2>4, AppendList
      <3>2. Len(s) = at - 1 /\ Len(s) + 1 = at BY <2>2, <2>6
      <3> QED BY <3>1, <3>2
    <2>8. \A i \in DOMAIN s : s[i].id < e.id
      BY <2>2, <2>3, <2>6, <2>7 DEF IdInvariant, IdsUnique, Increasing
    <2>9. \A i, j \in DOMAIN s : i < j => s[i].id < s[j].id
      BY <2>4 DEF IdInvariant, IdsUnique, Increasing, s
    <2>10. next_id \in Nat BY DEF IdInvariant, RegistryType
    <2>11. Increasing(Append(s, e), next_id)
      BY <2>3, <2>4, <2>8, <2>9, <2>10, AppendIncreasing
    <2>12. FileType'
      BY <2>1, <2>4, <2>5, <2>7 DEF IdInvariant, FileType
    <2>13. RegistryType' BY <2>1, <2>2 DEF IdInvariant, RegistryType
    <2>14. IdsUnique'
      BY <2>1, <2>4, <2>5, <2>6, <2>11 DEF IdInvariant, IdsUnique
    <2>15. Half'
      <3>1. \A i \in 1 .. at : file'[name].nodes[i].id = registry[i].id
        BY <2>2, <2>3, <2>5, <2>6, <2>7
      <3> QED BY <2>1, <2>2, <2>5, <2>6, <2>7, <3>1 DEF Half, SameIds
    <2> QED BY <2>12, <2>13, <2>14, <2>15 DEF IdInvariant
  <1> QED BY <1>1, <1>2

(* A file that is closed keeps its nodes.                                  *)
LEMMA EndCheckptIds == ASSUME IdInvariant, EndCheckpt PROVE IdInvariant'
  <1>1. /\ DOMAIN file' = Name
        /\ \A n \in Name :
             /\ file'[n].nodes = file[n].nodes /\ file'[n].next_id = file[n].next_id
             /\ file'[n] = [nodes |-> file'[n].nodes, next_id |-> file'[n].next_id,
                            complete |-> file'[n].complete]
    <2>1. DOMAIN file = Name /\ name \in Name BY DEF IdInvariant, FileType
    <2>2. file[name] = [nodes |-> file[name].nodes, next_id |-> file[name].next_id,
                        complete |-> file[name].complete]
      BY <2>1 DEF IdInvariant, FileType
    <2>3. file'[name] = [nodes |-> file[name].nodes, next_id |-> file[name].next_id,
                         complete |-> TRUE]
      BY <2>1, <2>2 DEF EndCheckpt
    <2>4. \A n \in Name \ {name} : file'[n] = file[n] BY <2>1 DEF EndCheckpt
    <2> QED BY <2>1, <2>3, <2>4 DEF EndCheckpt, IdInvariant, FileType
  <1>2. FileType' BY <1>1 DEF EndCheckpt, IdInvariant, FileType
  <1>3. RegistryType' BY DEF EndCheckpt, IdInvariant, RegistryType
  <1>4. IdsUnique' BY <1>1 DEF EndCheckpt, IdInvariant, IdsUnique
  <1> QED BY <1>2, <1>3, <1>4 DEF EndCheckpt, IdInvariant, Half

(* An empty registry goes on with the next id of the file, or with 1.      *)
LEMMA EmptiedIds ==
  ASSUME IdInvariant, registry' = <<>>, next_id' \in Nat, at' = 1,
         UNCHANGED file, name' \in Name, phase' # "write",
         phase' = "restore" => next_id' = file[name'].next_id
  PROVE  IdInvariant'
  <1>1. IsList(<<>>) /\ (\A b : Increasing(<<>>, b)) /\ Len(<<>>) = 0
    BY EmptyList
  <1>2. FileType' BY DEF IdInvariant, FileType
  <1>3. RegistryType' BY <1>1 DEF RegistryType
  <1>4. IdsUnique' BY <1>1 DEF IdInvariant, IdsUnique
  <1>5. Half'
    <2>1. \E S : file'[name'].nodes \in Seq(S)
      BY <1>2 DEF FileType, IsList, IsSequence
    <2>2. Len(file'[name'].nodes) \in Nat BY <2>1
    <2> QED BY <1>1, <2>2 DEF Half, SameIds
  <1> QED BY <1>2, <1>3, <1>4, <1>5 DEF IdInvariant

(* The next object that is restored has the next id of the file.           *)
LEMMA RestoreObjectIds ==
  ASSUME IdInvariant, RestoreObject PROVE IdInvariant'
  <1> DEFINE s == file[name].nodes
             id == s[at].id
  <1>1. CASE Fails
    BY <1>1, Untouched DEF Fails, IdInvariant, RegistryType
  <1>2. CASE ~ Fails
    <2>1. /\ phase = "restore" /\ at <= Len(s)
          /\ \E a : registry' = Append(registry, Node(id, a))
          /\ at' = at + 1 /\ UNCHANGED <<phase, next_id, file, name>>
      BY <1>2 DEF RestoreObject
    <2>2. PICK a : registry' = Append(registry, Node(id, a)) BY <2>1
    <2> DEFINE e == Node(id, a)
    <2>3. /\ Len(s) \in Nat /\ DOMAIN s = 1 .. Len(s)
          /\ at \in 1 .. Len(s) /\ at \in Nat /\ IsList(s)
          /\ Increasing(s, file[name].next_id)
      <3>1. IsList(s) /\ Increasing(s, file[name].next_id)
        BY DEF IdInvariant, FileType, IdsUnique
      <3>2. PICK S : s \in Seq(S) BY <3>1 DEF IsList, IsSequence
      <3> QED BY <3>1, <3>2, <2>1 DEF IdInvariant, RegistryType
    <2>4. /\ file[name].next_id = next_id /\ Len(registry) = at - 1
          /\ \A i \in 1 .. at - 1 : registry[i].id = s[i].id
      BY <2>1 DEF IdInvariant, Half, SameIds
    <2> HIDE DEF s
    <2>5. e.id = s[at].id /\ e.id \in Nat /\ e.id < next_id
      BY <2>3, <2>4 DEF Node, IsList, Increasing
    <2>6. /\ IsList(registry) /\ Increasing(registry, next_id) /\ next_id \in Nat
      BY DEF IdInvariant, RegistryType, IdsUnique
    <2> HIDE DEF e
    <2>7. /\ IsList(registry') /\ Len(registry') = at
          /\ DOMAIN registry = 1 .. at - 1
          /\ \A i \in 1 .. at - 1 : registry'[i] = registry[i]
          /\ registry'[at] = e
      <3>1. /\ IsList(Append(registry, e)) /\ DOMAIN registry = 1 .. Len(registry)
            /\ Len(Append(registry, e)) = Len(registry) + 1
            /\ \A i \in 1 .. Len(registry) : Append(registry, e)[i] = registry[i]
            /\ Append(registry, e)[Len(registry) + 1] = e
        BY <2>5, <2>6, AppendList
      <3>2. Len(registry) = at - 1 /\ Len(registry) + 1 = at BY <2>3, <2>4
      <3>3. registry' = Append(registry, e) BY <2>2 DEF e
      <3> QED BY <3>1, <3>2, <3>3
    <2>8. \A i \in DOMAIN registry : registry[i].id < e.id
      BY <2>3, <2>4, <2>5, <2>7 DEF Increasing
    <2>9. Increasing(registry', next_id)
      BY <2>2, <2>5, <2>6, <2>8, AppendIncreasing DEF Increasing, e
    <2>10. FileType' BY <2>1 DEF IdInvariant, FileType
    <2>11. RegistryType' BY <2>1, <2>3, <2>6, <2>7 DEF RegistryType
    <2>12. IdsUnique' BY <2>1, <2>9 DEF IdInvariant, IdsUnique
    <2>13. Half'
      <3>1. \A i \in 1 .. at : registry'[i].id = s[i].id
        BY <2>3, <2>4, <2>5, <2>7
      <3> QED BY <2>1, <2>3, <2>4, <2>7, <3>1 DEF Half, SameIds, s
    <2> QED BY <2>10, <2>11, <2>12, <2>13 DEF IdInvariant
  <1> QED BY <1>1, <1>2
---------------------------------------------------------------------------
(* Every step keeps the ids in order.                                      *)
LEMMA StepIds == ASSUME IdInvariant, [Next]_vars PROVE IdInvariant'
  <1>0. at \in Nat \ {0} /\ at + 1 \in Nat \ {0}
        /\ name \in Name /\ next_id \in Nat
    BY DEF IdInvariant, RegistryType, FileType
  <1>1. CASE StartUp BY <1>1, StartIds
  <1>2. CASE DefineSpecies BY <1>2, Registers DEF DefineSpecies, Define
  <1>3. CASE DefineCollision BY <1>3, Registers DEF DefineCollision, Define
  <1>4. CASE RegisterMain BY <1>4, Registers DEF RegisterMain
  <1>5. CASE Advance BY <1>0, <1>5, Untouched DEF Advance
  <1>6. ASSUME NEW n \in Name, BeginCheckpt(n) PROVE IdInvariant'
    BY <1>6, BeginCheckptIds
  <1>7. ASSUME NEW n \in Name, BeginRestore(n) PROVE IdInvariant'
    BY <1>7, EmptiedIds DEF BeginRestore, RestoredId, IdInvariant, FileType
  <1>8. CASE CheckptObject BY <1>8, CheckptObjectIds
  <1>9. CASE EndCheckpt BY <1>9, EndCheckptIds
  <1>10. CASE RestoreObject BY <1>10, RestoreObjectIds
  <1>11. CASE EndRestore BY <1>11, Untouched DEF EndRestore
  <1>12. CASE ReanimateObject
    BY <1>0, <1>12, Untouched DEF ReanimateObject, Fails
  <1>13. CASE EndReanimate BY <1>0, <1>13, Untouched DEF EndReanimate
  <1>14. CASE UnregisterMain BY <1>14, Unregisters DEF UnregisterMain
  <1>15. CASE DeleteSimulation BY <1>15, Unregisters DEF DeleteSimulation
  <1>16. CASE DeleteSpecies BY <1>16, Unregisters DEF DeleteSpecies
  <1>17. CASE halt_services BY <1>17, Unregisters DEF halt_services
  <1>18. CASE Crash BY <1>0, <1>18, EmptiedIds DEF Crash
  <1>19. CASE UNCHANGED vars BY <1>0, <1>19, Untouched DEF vars
  <1> QED
    BY <1>1, <1>2, <1>3, <1>4, <1>5, <1>6, <1>7, <1>8, <1>9, <1>10, <1>11,
       <1>12, <1>13, <1>14, <1>15, <1>16, <1>17, <1>18, <1>19 DEF Next, Stop

THEOREM IdsInvariant == Spec => []IdInvariant
  <1>1. IdInvariant /\ [Next]_vars => IdInvariant' BY StepIds
  <1> QED BY InitIds, <1>1, PTL DEF Spec

(* An id names one object for the whole life of a run, however often it is *)
(* killed and restarted from whichever file (checkpt.cc: object_id is      *)
(* stable across a checkpt/restore, checkpt.h).                            *)
THEOREM IdsAlwaysUnique == Spec => []IdsUnique
  <1>1. IdInvariant => IdsUnique BY DEF IdInvariant
  <1> QED BY <1>1, IdsInvariant, PTL
---------------------------------------------------------------------------
(* The memory as a list of nodes like the one a file holds, but with the   *)
(* address of an object for its id.                                        *)
Memory == [i \in DOMAIN registry |->
             Node(registry[i].obj, heap[registry[i].obj])]

Registered == {registry[i].obj : i \in DOMAIN registry}

IsObject(o) ==
  /\ o = [class |-> o.class, val |-> o.val, ptr |-> o.ptr]
  /\ o.class \in Class
  /\ o.ptr = [m \in Members(o.class) |-> o.ptr[m]]

Typed(L) == \A i \in DOMAIN L : IsObject(L[i].obj)

Distinct(L) ==
  /\ \A i \in DOMAIN L : L[i].id # 0
  /\ \A i, j \in DOMAIN L : L[i].id = L[j].id => i = j

(* Node i may refer to id p in member m of its class: some node has the id,*)
(* and it comes before i if the restore function looks it up.              *)
Refers(L, i, m, p) ==
  \E j \in DOMAIN L : /\ L[j].id = p /\ L[j].obj.class \in Target(m)
                      /\ m \in Ptrs[L[i].obj.class] => j < i

Backed(L) ==
  \A i \in DOMAIN L : \A m \in Members(L[i].obj.class) :
    L[i].obj.ptr[m] # 0 => Refers(L, i, m, L[i].obj.ptr[m])

Rooted(L) ==
  /\ 1 \in DOMAIN L /\ 2 \in DOMAIN L
  /\ \A i \in DOMAIN L : /\ L[i].obj.class = "world" <=> i = 1
                         /\ L[i].obj.class = "vpic" <=> i = 2
                         /\ L[i].obj.class = "simulation" =>
                              L[i].obj.ptr.simulation = L[2].id
  /\ \A i, j \in DOMAIN L :
       L[i].obj.class = "simulation" /\ L[j].obj.class = "simulation" => i = j

IsSpecies(L, i) == L[i].obj.class = "species"

(* p is the id of the last species before i, or NULL if there is none.     *)
Latest(L, i, p) ==
  \/ /\ p = 0
     /\ \A j \in DOMAIN L : IsSpecies(L, j) => j >= i
  \/ \E j \in DOMAIN L :
       /\ j < i /\ IsSpecies(L, j) /\ L[j].id = p
       /\ \A k \in DOMAIN L : k > j /\ IsSpecies(L, k) => k >= i

(* The species list has all species, the latest first.                     *)
Chained(L, n, head) ==
  /\ Latest(L, n + 1, head)
  /\ \A i \in DOMAIN L : IsSpecies(L, i) => Latest(L, i, L[i].obj.ptr.next)

Sound(L, n) ==
  /\ DOMAIN L = 1 .. n
  /\ Typed(L) /\ Distinct(L) /\ Backed(L) /\ Rooted(L)
  /\ Chained(L, n, L[2].obj.ptr.species_list)

HasMain(L) == \E i \in DOMAIN L : L[i].obj.class = "simulation"

(* The classes and their members.                                          *)
LEMMA Classes ==
  /\ Class = {"world", "vpic", "species", "collision", "simulation"}
  /\ Ptrs["world"] = {} /\ Members("world") = {}
  /\ Ptrs["vpic"] = {}
  /\ Members("vpic") = {"species_list", "collision_op_list"}
  /\ Ptrs["species"] = {"next"} /\ Members("species") = {"next"}
  /\ Ptrs["collision"] = {"sp", "next"} /\ Members("collision") = {"sp", "next"}
  /\ Ptrs["simulation"] = {"simulation"}
  /\ Members("simulation") = {"simulation"}
  /\ FPtrs["world"] = {} /\ FPtrs["species"] = {}
  /\ FPtrs["collision"] = {} /\ FPtrs["simulation"] = {}
  /\ FPtrs["vpic"] = {"species_list", "collision_op_list"}
  /\ \A c \in Class : Ptrs[c] \subseteq Members(c) /\ FPtrs[c] \subseteq Members(c)
  /\ \A c \in Class : Members(c) = Ptrs[c] \cup FPtrs[c]
  BY DEF Class, Members, Ptrs, FPtrs

(* The declared classes of the pointers.                                   *)
LEMMA Targets ==
  /\ Target("next") = {"species", "collision"}
  /\ Target("sp") = {"species"} /\ Target("species_list") = {"species"}
  /\ Target("collision_op_list") = {"collision"}
  /\ Target("simulation") = {"vpic"}
  BY DEF Target

(* An object with no pointer set is an object.                             *)
LEMMA BlankObject ==
  ASSUME NEW c \in Class
  PROVE  /\ IsObject(Blank(c)) /\ Blank(c).class = c /\ Blank(c).val = 0
         /\ \A m \in Members(c) : Blank(c).ptr[m] = 0
         /\ Blank(c).ptr = [m \in Members(c) |-> 0]
  BY DEF Blank, IsObject, Null

(* Lists with the same ids, classes and pointers are sound together.       *)
LEMMA SameSound ==
  ASSUME NEW n \in Nat, NEW L, Sound(L, n), NEW K, DOMAIN K = 1 .. n, Typed(K),
         \A i \in 1 .. n : /\ K[i].id = L[i].id
                           /\ K[i].obj.class = L[i].obj.class
                           /\ K[i].obj.ptr = L[i].obj.ptr
  PROVE  Sound(K, n)
  <1>1. DOMAIN L = 1 .. n /\ 2 \in DOMAIN L BY DEF Sound, Rooted
  <1>2. Distinct(K) BY <1>1 DEF Sound, Distinct
  <1>3. \A m, p : \A i \in 1 .. n : Refers(L, i, m, p) => Refers(K, i, m, p)
    BY <1>1 DEF Refers
  <1>4. Backed(K) BY <1>1, <1>3 DEF Sound, Backed
  <1>5. Rooted(K) BY <1>1 DEF Sound, Rooted
  <1>6. \A i, p : Latest(L, i, p) => Latest(K, i, p)
    BY <1>1 DEF Latest, IsSpecies
  <1>7. Chained(K, n, K[2].obj.ptr.species_list)
    BY <1>1, <1>6 DEF Sound, Chained, IsSpecies
  <1> QED BY <1>2, <1>4, <1>5, <1>7 DEF Sound

(* A node p of one list is the node q of another.                          *)
Pair(L, K, p, q) ==
  \/ p = 0 /\ q = 0
  \/ \E j \in DOMAIN L : L[j].id = p /\ K[j].id = q

(* A list that differs in the ids only, in nodes and pointers alike.       *)
LEMMA Transfer ==
  ASSUME NEW n \in Nat, NEW L, Sound(L, n),
         NEW K, DOMAIN K = 1 .. n, Typed(K), Distinct(K),
         \A i \in 1 .. n :
           /\ K[i].obj.class = L[i].obj.class
           /\ \A m \in Members(L[i].obj.class) :
                Pair(L, K, L[i].obj.ptr[m], K[i].obj.ptr[m])
  PROVE  Sound(K, n)
  <1>1. /\ DOMAIN L = 1 .. n /\ 1 \in DOMAIN L /\ 2 \in DOMAIN L
        /\ Distinct(L) /\ Typed(L)
    BY DEF Sound, Rooted
  <1>2. \A p, q : \A j \in 1 .. n : p = L[j].id /\ Pair(L, K, p, q) => q = K[j].id
    BY <1>1 DEF Distinct, Pair
  <1>3. \A q : Pair(L, K, 0, q) => q = 0 BY <1>1 DEF Distinct, Pair
  <1>4. \A p, q : Pair(L, K, p, q) /\ q # 0 => p # 0
    BY <1>1 DEF Distinct, Pair
  <1>5. Backed(K)
    <2> SUFFICES ASSUME NEW i \in 1 .. n, NEW m \in Members(K[i].obj.class),
                        K[i].obj.ptr[m] # 0
                 PROVE  Refers(K, i, m, K[i].obj.ptr[m])
      BY DEF Backed
    <2> DEFINE p == L[i].obj.ptr[m]
    <2>1. m \in Members(L[i].obj.class) /\ Pair(L, K, p, K[i].obj.ptr[m])
      OBVIOUS
    <2>2. p # 0 BY <2>1, <1>4
    <2>3. Refers(L, i, m, p) BY <1>1, <2>1, <2>2 DEF Sound, Backed
    <2> HIDE DEF p
    <2>4. PICK j \in 1 .. n : /\ L[j].id = p /\ L[j].obj.class \in Target(m)
                              /\ m \in Ptrs[L[i].obj.class] => j < i
      BY <1>1, <2>3 DEF Refers
    <2>5. K[j].id = K[i].obj.ptr[m] BY <1>2, <2>1, <2>4
    <2> QED BY <2>4, <2>5 DEF Refers
  <1>6. Rooted(K)
    <2>1. ASSUME NEW i \in 1 .. n, K[i].obj.class = "simulation"
          PROVE  K[i].obj.ptr.simulation = K[2].id
      <3>1. L[i].obj.class = "simulation" /\ L[i].obj.ptr.simulation = L[2].id
        BY <1>1, <2>1 DEF Sound, Rooted
      <3>2. "simulation" \in Members("simulation") BY Classes
      <3>3. Pair(L, K, L[i].obj.ptr["simulation"], K[i].obj.ptr["simulation"])
        BY <3>1, <3>2
      <3> QED BY <1>1, <1>2, <3>1, <3>3
    <2> QED BY <1>1, <2>1 DEF Sound, Rooted
  <1>7. ASSUME NEW i, NEW p, NEW q, Latest(L, i, p), Pair(L, K, p, q)
        PROVE  Latest(K, i, q)
    <2>1. CASE p = 0 /\ \A j \in DOMAIN L : IsSpecies(L, j) => j >= i
      BY <1>1, <1>3, <1>7, <2>1 DEF Latest, IsSpecies
    <2>2. ASSUME NEW j \in DOMAIN L, j < i, IsSpecies(L, j), L[j].id = p,
                 \A k \in DOMAIN L : k > j /\ IsSpecies(L, k) => k >= i
          PROVE  Latest(K, i, q)
      <3>1. K[j].id = q BY <1>1, <1>2, <1>7, <2>2
      <3> QED BY <1>1, <2>2, <3>1 DEF Latest, IsSpecies
    <2> QED BY <1>7, <2>1, <2>2 DEF Latest
  <1>8. Chained(K, n, K[2].obj.ptr.species_list)
    <2>1. L[2].obj.class = "vpic" BY <1>1 DEF Sound, Rooted
    <2>2. Pair(L, K, L[2].obj.ptr["species_list"], K[2].obj.ptr["species_list"])
      BY <1>1, <2>1, Classes
    <2>3. Latest(K, n + 1, K[2].obj.ptr.species_list)
      BY <1>7, <2>2 DEF Sound, Chained
    <2>4. ASSUME NEW i \in 1 .. n, IsSpecies(K, i)
          PROVE  Latest(K, i, K[i].obj.ptr.next)
      <3>1. L[i].obj.class = "species" BY <2>4 DEF IsSpecies
      <3>2. Pair(L, K, L[i].obj.ptr["next"], K[i].obj.ptr["next"])
        BY <3>1, Classes
      <3>3. Latest(L, i, L[i].obj.ptr.next)
        BY <1>1, <3>1 DEF Sound, Chained, IsSpecies
      <3> QED BY <1>7, <3>2, <3>3
    <2> QED BY <2>3, <2>4 DEF Chained
  <1> QED BY <1>5, <1>6, <1>8 DEF Sound

(* K is L with the object o and the id a at the end, to which a head of    *)
(* the simulation's lists may lead from now on.                            *)
Grown(K, L, n, head, a, o) ==
  /\ DOMAIN K = 1 .. n + 1 /\ Typed(K)
  /\ a # 0 /\ K[n + 1].id = a /\ K[n + 1].obj = o
  /\ \A i \in 1 .. n : /\ L[i].id # a /\ K[i].id = L[i].id
                       /\ K[i].obj.class = L[i].obj.class
                       /\ i # 2 => K[i].obj.ptr = L[i].obj.ptr
  /\ \A m \in Members("vpic") :
       K[2].obj.ptr[m] = IF m = head THEN a ELSE L[2].obj.ptr[m]
  /\ head \in Members("vpic") => o.class \in Target(head)
  /\ o.class \in {"species", "collision", "simulation"}
  /\ o.class = "species" <=> head = "species_list"
  /\ o.class = "species" => o.ptr.next = L[2].obj.ptr.species_list
  /\ o.class = "simulation" =>
       /\ o.ptr.simulation = L[2].id
       /\ \A i \in 1 .. n : L[i].obj.class # "simulation"
  /\ \A m \in Members(o.class) :
       o.ptr[m] # 0 => \E j \in 1 .. n : /\ L[j].id = o.ptr[m]
                                         /\ L[j].obj.class \in Target(m)

(* A new node at the end keeps a list sound.                               *)
LEMMA AppendSound ==
  ASSUME NEW n \in Nat, NEW L, Sound(L, n), NEW K, NEW head, NEW a, NEW o,
         Grown(K, L, n, head, a, o)
  PROVE  Sound(K, n + 1)
  <1> USE DEF Grown
  <1>1. /\ DOMAIN L = 1 .. n /\ 1 \in 1 .. n /\ 2 \in 1 .. n /\ n + 1 \notin 1 .. n
        /\ Distinct(L) /\ Typed(L) /\ L[2].obj.class = "vpic"
        /\ \A i \in 1 .. n + 1 : i \in 1 .. n \/ i = n + 1
    BY DEF Sound, Rooted
  <1>2. Distinct(K) BY <1>1 DEF Distinct
  <1>3. Backed(K)
    <2> SUFFICES ASSUME NEW i \in 1 .. n + 1, NEW m \in Members(K[i].obj.class),
                        K[i].obj.ptr[m] # 0
                 PROVE  Refers(K, i, m, K[i].obj.ptr[m])
      BY DEF Backed
    <2>1. CASE i = n + 1
      <3>1. PICK j \in 1 .. n : L[j].id = o.ptr[m] /\ L[j].obj.class \in Target(m)
        BY <2>1
      <3>2. j < i /\ K[j].id = o.ptr[m] /\ K[j].obj.class \in Target(m)
        BY <2>1, <3>1
      <3> QED BY <2>1, <3>1, <3>2 DEF Refers
    <2>2. ASSUME i \in 1 .. n, K[i].obj.ptr[m] = L[i].obj.ptr[m]
          PROVE  Refers(K, i, m, K[i].obj.ptr[m])
      <3>1. Refers(L, i, m, L[i].obj.ptr[m]) BY <1>1, <2>2 DEF Sound, Backed
      <3>2. PICK j \in 1 .. n : /\ L[j].id = L[i].obj.ptr[m]
                                /\ L[j].obj.class \in Target(m)
                                /\ m \in Ptrs[L[i].obj.class] => j < i
        BY <1>1, <3>1 DEF Refers
      <3> QED BY <1>1, <2>2, <3>2 DEF Refers
    <2>3. CASE i = 2 /\ m = head
      <3>1. m \in Members("vpic") /\ K[i].obj.ptr[m] = a BY <1>1, <2>3
      <3>2. m \notin Ptrs[K[i].obj.class] BY <1>1, <2>3, Classes
      <3> QED BY <1>1, <2>3, <3>1, <3>2 DEF Refers
    <2>4. CASE i \in 1 .. n /\ ~ (i = 2 /\ m = head)
      BY <1>1, <2>2, <2>4
    <2> QED BY <1>1, <2>1, <2>3, <2>4
  <1>4. Rooted(K)
    <2>1. /\ \A i \in 1 .. n : /\ K[i].id = L[i].id
                               /\ K[i].obj.class = L[i].obj.class
                               /\ i # 2 => K[i].obj.ptr = L[i].obj.ptr
          /\ K[n + 1].obj = o
          /\ o.class \in {"species", "collision", "simulation"}
          /\ o.class = "simulation" =>
               /\ o.ptr.simulation = L[2].id
               /\ \A i \in 1 .. n : L[i].obj.class # "simulation"
          /\ DOMAIN K = 1 .. n + 1
      OBVIOUS
    <2>2. /\ \A i \in 1 .. n : /\ L[i].obj.class = "world" <=> i = 1
                               /\ L[i].obj.class = "vpic" <=> i = 2
                               /\ L[i].obj.class = "simulation" =>
                                    L[i].obj.ptr.simulation = L[2].id
          /\ \A i, j \in 1 .. n :
               L[i].obj.class = "simulation" /\ L[j].obj.class = "simulation"
                 => i = j
      BY <1>1 DEF Sound, Rooted
    <2>3. 1 \in 1 .. n /\ 2 \in 1 .. n /\ n + 1 \notin 1 .. n
          /\ \A i \in 1 .. n + 1 : i \in 1 .. n \/ i = n + 1
      BY <1>1
    <2> HIDE DEF Grown
    <2>4. /\ K[n + 1].obj.class # "world" /\ K[n + 1].obj.class # "vpic"
          /\ K[n + 1].obj.class = "simulation" =>
               K[n + 1].obj.ptr.simulation = K[2].id
      BY <2>1, <2>3
    <2>5. \A i \in 1 .. n : /\ K[i].obj.class = "world" <=> i = 1
                            /\ K[i].obj.class = "vpic" <=> i = 2
      BY <2>1, <2>2
    <2>6. \A i \in 1 .. n : K[i].obj.class = "simulation" =>
                              K[i].obj.ptr.simulation = K[2].id
      <3> SUFFICES ASSUME NEW i \in 1 .. n, K[i].obj.class = "simulation"
                   PROVE  K[i].obj.ptr.simulation = K[2].id
        OBVIOUS
      <3>1. L[i].obj.class = "simulation" BY <2>1
      <3>2. i # 2 BY <2>2, <3>1
      <3> QED BY <2>1, <2>2, <2>3, <3>1, <3>2
    <2>7. ASSUME NEW i \in 1 .. n + 1, NEW j \in 1 .. n + 1,
                 K[i].obj.class = "simulation", K[j].obj.class = "simulation"
          PROVE  i = j
      <3>1. CASE o.class = "simulation"
        <4>1. \A l \in 1 .. n : K[l].obj.class # "simulation" BY <2>1, <3>1
        <4> QED BY <2>3, <2>7, <4>1
      <3>2. CASE o.class # "simulation"
        <4>1. i \in 1 .. n /\ j \in 1 .. n BY <2>1, <2>3, <2>7, <3>2
        <4>2. L[i].obj.class = "simulation" /\ L[j].obj.class = "simulation"
          BY <2>1, <2>7, <4>1
        <4> QED BY <2>2, <4>1, <4>2
      <3> QED BY <3>1, <3>2
    <2>8. 1 \in DOMAIN K /\ 2 \in DOMAIN K BY <2>1, <2>3
    <2> QED BY <2>1, <2>3, <2>4, <2>5, <2>6, <2>7, <2>8 DEF Rooted
  <1>5. ASSUME NEW i \in 1 .. n + 1, NEW p, Latest(L, i, p)
        PROVE  Latest(K, i, p)
    <2>1. \A j \in 1 .. n : IsSpecies(K, j) <=> IsSpecies(L, j)
      BY <1>1 DEF IsSpecies
    <2>2. CASE p = 0 /\ \A j \in DOMAIN L : IsSpecies(L, j) => j >= i
      <3>1. \A j \in 1 .. n + 1 : IsSpecies(K, j) => j >= i
        BY <1>1, <2>1, <2>2
      <3> QED BY <2>2, <3>1 DEF Latest
    <2>3. ASSUME NEW j \in DOMAIN L, j < i, IsSpecies(L, j), L[j].id = p,
                 \A l \in DOMAIN L : l > j /\ IsSpecies(L, l) => l >= i
          PROVE  Latest(K, i, p)
      <3>1. \A l \in 1 .. n + 1 : l > j /\ IsSpecies(K, l) => l >= i
        BY <1>1, <2>1, <2>3
      <3>2. j \in 1 .. n + 1 /\ IsSpecies(K, j) /\ K[j].id = p
        BY <1>1, <2>1, <2>3
      <3> QED BY <2>3, <3>1, <3>2 DEF Latest
    <2> QED BY <1>5, <2>2, <2>3 DEF Latest
  <1>6. Chained(L, n, L[2].obj.ptr.species_list) BY DEF Sound
  <1>7. "species_list" \in Members("vpic") /\ "next" \in Members("species")
    BY Classes
  <1>8. Latest(K, n + 2, K[2].obj.ptr.species_list)
    <2>1. CASE o.class = "species"
      <3>1. K[2].obj.ptr.species_list = a BY <1>7, <2>1
      <3>2. \A k \in 1 .. n + 1 : k > n + 1 => k >= n + 2 OBVIOUS
      <3>3. n + 1 \in 1 .. n + 1 /\ n + 1 < n + 2 OBVIOUS
      <3> QED BY <2>1, <3>1, <3>2, <3>3 DEF Latest, IsSpecies
    <2>2. CASE o.class # "species"
      <3>1. K[2].obj.ptr.species_list = L[2].obj.ptr.species_list
        BY <1>7, <2>2
      <3>2. Latest(L, n + 1, L[2].obj.ptr.species_list) BY DEF Sound, Chained
      <3>3. \A j \in DOMAIN K : IsSpecies(K, j) => j \in 1 .. n /\ IsSpecies(L, j)
        BY <1>1, <2>2 DEF IsSpecies
      <3>4. \A j \in 1 .. n : ~ (j >= n + 1) /\ j < n + 2 OBVIOUS
      <3> QED BY <1>1, <3>1, <3>2, <3>3, <3>4 DEF Latest, IsSpecies
    <2> QED BY <2>1, <2>2
  <1>9. ASSUME NEW i \in 1 .. n + 1, IsSpecies(K, i)
        PROVE  Latest(K, i, K[i].obj.ptr.next)
    <2>1. CASE i = n + 1
      <3>1. K[i].obj.ptr.next = L[2].obj.ptr.species_list
        BY <1>9, <2>1 DEF IsSpecies
      <3> QED BY <2>1, <3>1, <1>5, <1>6 DEF Chained
    <2>2. CASE i \in 1 .. n
      <3>1. i # 2 /\ IsSpecies(L, i) BY <1>1, <1>9, <2>2 DEF IsSpecies
      <3>2. Latest(L, i, L[i].obj.ptr.next)
        BY <1>1, <1>6, <2>2, <3>1 DEF Chained
      <3> QED BY <2>2, <3>1, <3>2, <1>5
    <2> QED BY <1>1, <2>1, <2>2
  <1>10. Chained(K, n + 1, K[2].obj.ptr.species_list)
    <2>1. (n + 1) + 1 = n + 2 OBVIOUS
    <2> QED BY <2>1, <1>8, <1>9 DEF Chained
  <1> QED BY <1>2, <1>3, <1>4, <1>10 DEF Sound

(* The places of the nodes when node k is taken out.                       *)
Shift(k, i) == IF i < k THEN i ELSE i + 1

LEMMA Shifts ==
  ASSUME NEW n \in Nat, NEW k \in 1 .. n
  PROVE  /\ \A i \in 1 .. n - 1 : Shift(k, i) \in 1 .. n /\ Shift(k, i) # k
         /\ \A i, j \in 1 .. n - 1 : Shift(k, i) < Shift(k, j) <=> i < j
         /\ \A i, j \in 1 .. n - 1 : Shift(k, i) = Shift(k, j) => i = j
         /\ \A j \in 1 .. n : j # k => \E i \in 1 .. n - 1 : j = Shift(k, i)
         /\ \A i \in 1 .. n - 1 : Shift(k, i) < k <=> i < k
  <1>1. \A j \in 1 .. n : j # k => \E i \in 1 .. n - 1 : j = Shift(k, i)
    <2> SUFFICES ASSUME NEW j \in 1 .. n, j # k
                 PROVE  \E i \in 1 .. n - 1 : j = Shift(k, i)
      OBVIOUS
    <2>1. CASE j < k BY <2>1 DEF Shift
    <2>2. CASE j > k
      <3>1. j - 1 \in 1 .. n - 1 /\ Shift(k, j - 1) = j BY <2>2 DEF Shift
      <3> QED BY <3>1
    <2> QED BY <2>1, <2>2
  <1> QED BY <1>1 DEF Shift

(* K is L without node k.                                                  *)
TakenOut(K, L, n, k) ==
  /\ DOMAIN K = 1 .. n - 1
  /\ \A i \in 1 .. n - 1 : K[i] = L[Shift(k, i)]

(* Taking out a node that is no species keeps the species list whole.      *)
LEMMA OtherTakenOut ==
  ASSUME NEW n \in Nat, NEW L, DOMAIN L = 1 .. n, NEW k \in 1 .. n,
         ~ IsSpecies(L, k), NEW K, TakenOut(K, L, n, k),
         NEW head, Chained(L, n, head)
  PROVE  Chained(K, n - 1, head)
  <1> DEFINE F(i) == Shift(k, i)
  <1>1. /\ \A i \in 1 .. n - 1 : F(i) \in 1 .. n /\ F(i) # k
        /\ \A i, j \in 1 .. n - 1 : F(i) < F(j) <=> i < j
        /\ \A j \in 1 .. n : j # k => \E i \in 1 .. n - 1 : j = F(i)
    BY Shifts
  <1>2. DOMAIN K = 1 .. n - 1 /\ \A i \in 1 .. n - 1 : K[i] = L[F(i)]
    BY DEF TakenOut
  <1> HIDE DEF F
  <1>3. \A j \in 1 .. n : IsSpecies(L, j) =>
          \E i \in 1 .. n - 1 : j = F(i) /\ IsSpecies(K, i)
    BY <1>1, <1>2 DEF IsSpecies
  <1>4. \A i \in 1 .. n - 1 : IsSpecies(K, i) <=> IsSpecies(L, F(i))
    BY <1>1, <1>2 DEF IsSpecies
  <1>5. ASSUME NEW b \in Nat, NEW c \in Nat, NEW p, Latest(L, b, p),
               \A i \in 1 .. n - 1 : F(i) < b <=> i < c
        PROVE  Latest(K, c, p)
    <2>1. CASE p = 0 /\ \A j \in DOMAIN L : IsSpecies(L, j) => j >= b
      BY <1>1, <1>2, <1>4, <1>5, <2>1 DEF Latest
    <2>2. ASSUME NEW j \in DOMAIN L, j < b, IsSpecies(L, j), L[j].id = p,
                 \A i \in DOMAIN L : i > j /\ IsSpecies(L, i) => i >= b
          PROVE  Latest(K, c, p)
      <3>1. PICK i \in 1 .. n - 1 : j = F(i) /\ IsSpecies(K, i) BY <1>3, <2>2
      <3>2. i < c /\ K[i].id = p BY <1>2, <1>5, <2>2, <3>1
      <3>3. ASSUME NEW l \in 1 .. n - 1, l > i, IsSpecies(K, l) PROVE l >= c
        <4>1. F(l) \in 1 .. n /\ F(l) > F(i) /\ IsSpecies(L, F(l))
          BY <1>1, <1>4, <3>3
        <4>2. F(l) >= b BY <2>2, <3>1, <4>1
        <4>3. ~ (F(l) < b) BY <4>1, <4>2
        <4> QED BY <1>5, <4>3
      <3> QED BY <1>2, <3>1, <3>2, <3>3 DEF Latest
    <2> QED BY <1>5, <2>1, <2>2 DEF Latest
  <1>6. Latest(K, n, head)
    <2>1. \A i \in 1 .. n - 1 : F(i) < n + 1 <=> i < n BY <1>1
    <2> QED BY <1>5, <2>1 DEF Chained
  <1>7. ASSUME NEW i \in 1 .. n - 1, IsSpecies(K, i)
        PROVE  Latest(K, i, K[i].obj.ptr.next)
    <2>1. Latest(L, F(i), L[F(i)].obj.ptr.next)
      BY <1>1, <1>4, <1>7 DEF Chained
    <2>2. \A l \in 1 .. n - 1 : F(l) < F(i) <=> l < i BY <1>1
    <2>3. F(i) \in Nat /\ i \in Nat BY <1>1
    <2> QED BY <1>2, <1>5, <2>1, <2>2, <2>3
  <1>8. (n - 1) + 1 = n OBVIOUS
  <1> QED BY <1>2, <1>6, <1>7, <1>8 DEF Chained

(* Taking out the head of the species list leaves the rest of it.          *)
LEMMA HeadTakenOut ==
  ASSUME NEW n \in Nat, NEW L, DOMAIN L = 1 .. n, NEW k \in 1 .. n,
         IsSpecies(L, k), NEW K, TakenOut(K, L, n, k),
         NEW head, Chained(L, n, head), L[k].id = head, Distinct(L)
  PROVE  Chained(K, n - 1, L[k].obj.ptr.next)
  <1> DEFINE F(i) == Shift(k, i)
  <1>1. /\ \A i \in 1 .. n - 1 : F(i) \in 1 .. n /\ F(i) # k
        /\ \A i, j \in 1 .. n - 1 : F(i) < F(j) <=> i < j
        /\ \A j \in 1 .. n : j # k => \E i \in 1 .. n - 1 : j = F(i)
        /\ \A i \in 1 .. n - 1 : F(i) < k <=> i < k
    BY Shifts
  <1>2. DOMAIN K = 1 .. n - 1 /\ \A i \in 1 .. n - 1 : K[i] = L[F(i)]
    BY DEF TakenOut
  <1>3. \A j \in 1 .. n : IsSpecies(L, j) => j <= k
    <2>1. head # 0 BY DEF Distinct
    <2>2. PICK j \in DOMAIN L :
            /\ L[j].id = head
            /\ \A l \in DOMAIN L : l > j /\ IsSpecies(L, l) => l >= n + 1
      BY <2>1 DEF Chained, Latest
    <2>3. j = k BY <2>2 DEF Distinct
    <2> QED BY <2>2, <2>3
  <1> HIDE DEF F
  <1>4. \A j \in 1 .. n : j # k /\ IsSpecies(L, j) =>
          \E i \in 1 .. n - 1 : j = F(i) /\ IsSpecies(K, i)
    BY <1>1, <1>2 DEF IsSpecies
  <1>5. \A i \in 1 .. n - 1 : IsSpecies(K, i) <=> IsSpecies(L, F(i))
    BY <1>1, <1>2 DEF IsSpecies
  <1>6. ASSUME NEW b \in 1 .. k, NEW c \in Nat, NEW p, Latest(L, b, p),
               \A i \in 1 .. n - 1 : IsSpecies(K, i) => (F(i) < b <=> i < c)
        PROVE  Latest(K, c, p)
    <2>1. CASE p = 0 /\ \A j \in DOMAIN L : IsSpecies(L, j) => j >= b
      BY <1>1, <1>2, <1>5, <1>6, <2>1 DEF Latest
    <2>2. ASSUME NEW j \in DOMAIN L, j < b, IsSpecies(L, j), L[j].id = p,
                 \A i \in DOMAIN L : i > j /\ IsSpecies(L, i) => i >= b
          PROVE  Latest(K, c, p)
      <3>1. PICK i \in 1 .. n - 1 : j = F(i) /\ IsSpecies(K, i)
        BY <1>4, <2>2
      <3>2. i < c /\ K[i].id = p BY <1>2, <1>6, <2>2, <3>1
      <3>3. ASSUME NEW l \in 1 .. n - 1, l > i, IsSpecies(K, l) PROVE l >= c
        <4>1. F(l) \in 1 .. n /\ F(l) > F(i) /\ IsSpecies(L, F(l))
          BY <1>1, <1>5, <3>3
        <4>2. F(l) >= b BY <2>2, <3>1, <4>1
        <4>3. ~ (F(l) < b) BY <4>1, <4>2
        <4> QED BY <1>6, <3>3, <4>3
      <3> QED BY <1>2, <3>1, <3>2, <3>3 DEF Latest
    <2> QED BY <1>6, <2>1, <2>2 DEF Latest
  <1>7. Latest(K, n, L[k].obj.ptr.next)
    <2>1. ASSUME NEW i \in 1 .. n - 1, IsSpecies(K, i) PROVE F(i) < k <=> i < n
      <3>1. F(i) \in 1 .. n /\ F(i) <= k /\ F(i) # k BY <1>1, <1>3, <1>5, <2>1
      <3> QED BY <3>1
    <2>2. Latest(L, k, L[k].obj.ptr.next) BY DEF Chained
    <2> QED BY <1>6, <2>1, <2>2
  <1>8. ASSUME NEW i \in 1 .. n - 1, IsSpecies(K, i)
        PROVE  Latest(K, i, K[i].obj.ptr.next)
    <2>1. Latest(L, F(i), L[F(i)].obj.ptr.next)
      BY <1>1, <1>5, <1>8 DEF Chained
    <2>2. \A l \in 1 .. n - 1 : F(l) < F(i) <=> l < i BY <1>1
    <2>3. F(i) \in 1 .. k
      <3>1. F(i) \in 1 .. n /\ F(i) <= k BY <1>1, <1>3, <1>5, <1>8
      <3> QED BY <3>1
    <2> QED BY <1>2, <1>6, <2>1, <2>2, <2>3
  <1>9. (n - 1) + 1 = n OBVIOUS
  <1> QED BY <1>2, <1>7, <1>8, <1>9 DEF Chained

(* Taking main's pointer out keeps a list sound: nothing leads to it.      *)
LEMMA MainTakenOut ==
  ASSUME NEW n \in Nat, NEW L, Sound(L, n), NEW k \in 1 .. n,
         L[k].obj.class = "simulation", NEW K, TakenOut(K, L, n, k)
  PROVE  Sound(K, n - 1)
  <1> DEFINE F(i) == Shift(k, i)
  <1>1. /\ \A i \in 1 .. n - 1 : F(i) \in 1 .. n /\ F(i) # k
        /\ \A i, j \in 1 .. n - 1 : F(i) < F(j) <=> i < j
        /\ \A i, j \in 1 .. n - 1 : F(i) = F(j) => i = j
        /\ \A j \in 1 .. n : j # k => \E i \in 1 .. n - 1 : j = F(i)
        /\ \A i \in 1 .. n - 1 : F(i) < k <=> i < k
    BY Shifts
  <1>2. DOMAIN K = 1 .. n - 1 /\ \A i \in 1 .. n - 1 : K[i] = L[F(i)]
    BY DEF TakenOut
  <1>3. DOMAIN L = 1 .. n /\ 1 \in 1 .. n /\ 2 \in 1 .. n /\ k # 1 /\ k # 2
        /\ Typed(L) /\ Distinct(L) /\ Backed(L) /\ Rooted(L)
    BY DEF Sound, Rooted
  <1>4. F(1) = 1 /\ F(2) = 2 /\ 1 \in 1 .. n - 1 /\ 2 \in 1 .. n - 1
    BY <1>3 DEF Shift
  <1> HIDE DEF F
  <1>5. Typed(K) /\ Distinct(K)
    <2>1. Typed(K) BY <1>1, <1>2, <1>3 DEF Typed
    <2>2. \A i \in 1 .. n - 1 : K[i].id # 0 BY <1>1, <1>2, <1>3 DEF Distinct
    <2>3. ASSUME NEW i \in 1 .. n - 1, NEW j \in 1 .. n - 1, K[i].id = K[j].id
          PROVE  i = j
      <3>1. F(i) \in 1 .. n /\ F(j) \in 1 .. n /\ L[F(i)].id = L[F(j)].id
        BY <1>1, <1>2, <2>3
      <3>2. F(i) = F(j) BY <1>3, <3>1 DEF Distinct
      <3> QED BY <1>1, <3>2
    <2> QED BY <1>2, <2>1, <2>2, <2>3 DEF Distinct
  <1>6. Backed(K)
    <2> SUFFICES ASSUME NEW i \in 1 .. n - 1, NEW m \in Members(K[i].obj.class),
                        K[i].obj.ptr[m] # 0
                 PROVE  Refers(K, i, m, K[i].obj.ptr[m])
      BY <1>2 DEF Backed
    <2>1. Refers(L, F(i), m, K[i].obj.ptr[m])
      <3>1. F(i) \in DOMAIN L /\ K[i] = L[F(i)] BY <1>1, <1>2, <1>3
      <3>2. m \in Members(L[F(i)].obj.class) /\ L[F(i)].obj.ptr[m] # 0
        BY <3>1
      <3>3. Refers(L, F(i), m, L[F(i)].obj.ptr[m])
        BY <1>3, <3>1, <3>2 DEF Backed
      <3> QED BY <3>1, <3>3
    <2>2. PICK j \in 1 .. n : /\ L[j].id = K[i].obj.ptr[m]
                              /\ L[j].obj.class \in Target(m)
                              /\ m \in Ptrs[L[F(i)].obj.class] => j < F(i)
      BY <1>3, <2>1 DEF Refers
    <2>3. "simulation" \notin Target(m)
      <3>1. m \in {"next", "sp", "species_list", "collision_op_list", "simulation"}
        <4>1. K[i].obj.class \in Class BY <1>2, <1>5 DEF Typed, IsObject
        <4> QED BY <4>1, Classes
      <3> QED BY <3>1, Targets
    <2>4. PICK l \in 1 .. n - 1 : j = F(l) BY <1>1, <2>2, <2>3
    <2> QED BY <1>1, <1>2, <2>2, <2>4 DEF Refers
  <1>7. Rooted(K)
    <2>1. ASSUME NEW i \in 1 .. n - 1
          PROVE  /\ K[i].obj.class = "world" <=> i = 1
                 /\ K[i].obj.class = "vpic" <=> i = 2
                 /\ K[i].obj.class = "simulation" =>
                      K[i].obj.ptr.simulation = K[2].id
      <3>1. F(i) \in 1 .. n /\ K[i] = L[F(i)] BY <1>1, <1>2
      <3>2. (F(i) = 1 <=> i = 1) /\ (F(i) = 2 <=> i = 2) BY <1>1, <1>4
      <3>3. K[2] = L[2] BY <1>2, <1>4
      <3> QED BY <1>3, <3>1, <3>2, <3>3 DEF Rooted
    <2>2. \A i \in 1 .. n - 1 : K[i].obj.class # "simulation"
      <3> SUFFICES ASSUME NEW i \in 1 .. n - 1, K[i].obj.class = "simulation"
                   PROVE  FALSE
        OBVIOUS
      <3>1. F(i) \in DOMAIN L /\ L[F(i)].obj.class = "simulation"
        BY <1>1, <1>2, <1>3
      <3>2. F(i) = k BY <1>3, <3>1 DEF Rooted
      <3> QED BY <1>1, <3>2
    <2> QED BY <1>2, <1>4, <2>1, <2>2 DEF Rooted
  <1>8. Chained(K, n - 1, K[2].obj.ptr.species_list)
    <2>1. ~ IsSpecies(L, k) BY DEF IsSpecies
    <2>2. K[2] = L[2] BY <1>2, <1>4
    <2>3. Chained(L, n, L[2].obj.ptr.species_list) BY DEF Sound
    <2> QED BY <1>3, <2>1, <2>2, <2>3, OtherTakenOut
  <1> QED BY <1>2, <1>5, <1>6, <1>7, <1>8 DEF Sound
---------------------------------------------------------------------------
(* An address and an id are those of one registered object, or both NULL.  *)
Same(list, p, id) ==
  \/ p = 0 /\ id = 0
  \/ \E j \in DOMAIN list : list[j].obj = p /\ list[j].id = id

(* t is what a file has of the object o, where the pointers in the members *)
(* done of o are addresses and the others still ids.                       *)
Copied(list, o, t, done) ==
  /\ o.class = t.class /\ o.val = t.val /\ IsObject(t)
  /\ \A m \in Members(o.class) : IF m \in done THEN Same(list, o.ptr[m], t.ptr[m])
                                 ELSE o.ptr[m] = t.ptr[m]

(* The object o may be at address a: the static ones have their places.    *)
Fits(a, o) == /\ IsObject(o)
              /\ o.class = "world" <=> a = World
              /\ o.class = "simulation" <=> a = Simulation

HeapOk(h) ==
  /\ Static \subseteq DOMAIN h /\ DOMAIN h \subseteq Static \cup Addr
  /\ h = [a \in DOMAIN h |-> h[a]]
  /\ \A a \in DOMAIN h : Fits(a, h[a])

Injective(list) ==
  \A i, j \in DOMAIN list : list[i].obj = list[j].obj => i = j

ObjectAt(i) == heap[registry[i].obj]
Saved(i) == file[name].nodes[i].obj

HeapType == HeapOk(heap) /\ Registered \subseteq DOMAIN heap /\ Injective(registry)

IdsPositive ==
  /\ next_id >= 1 /\ \A i \in DOMAIN registry : registry[i].id >= 1
  /\ \A n \in Name : \A i \in DOMAIN file[n].nodes : file[n].nodes[i].id >= 1

FilesSound ==
  \A n \in Name : file[n].complete =>
    /\ Sound(file[n].nodes, Len(file[n].nodes))
    /\ HasMain(file[n].nodes)

Phases == {"down", "initialize", "advance", "write", "restore", "reanimate",
           "finalize", "delete", "halted"}

AllRegistered ==
  phase \in {"initialize", "advance", "write", "restore", "reanimate"} =>
    DOMAIN heap = Static \cup Registered

LiveSound ==
  /\ phase \in {"initialize", "advance", "write", "finalize"} =>
       Sound(Memory, Len(registry)) /\ Vpic = registry[2].obj
  /\ phase \in {"advance", "write"} => Simulation \in Registered
  /\ phase \in {"initialize", "finalize"} => Simulation \notin Registered

Writing ==
  phase = "write" =>
    /\ ~ file[name].complete
    /\ \A i \in 1 .. at - 1 :
         Copied(registry, ObjectAt(i), Saved(i), Members(ObjectAt(i).class))

Restoring ==
  /\ phase \in {"restore", "reanimate"} => file[name].complete
  /\ phase = "restore" =>
       \A i \in DOMAIN registry :
         Copied(registry, ObjectAt(i), Saved(i), Ptrs[ObjectAt(i).class])

Reanimating ==
  phase = "reanimate" =>
    /\ Len(registry) = Len(file[name].nodes)
    /\ SameIds(registry, file[name].nodes, Len(registry))
    /\ \A i \in DOMAIN registry :
         Copied(registry, ObjectAt(i), Saved(i),
                IF i < at THEN Members(ObjectAt(i).class)
                ELSE Ptrs[ObjectAt(i).class])

Deleting ==
  phase = "delete" =>
    /\ 1 \in DOMAIN registry /\ registry[1].obj = World
    /\ Vpic \in DOMAIN heap \ Registered /\ heap[Vpic].class = "vpic"
    /\ \A i \in DOMAIN registry :
         i # 1 => ObjectAt(i).class \in {"species", "collision"}
    /\ Chained(Memory, Len(registry), heap[Vpic].ptr.species_list)

PointerInvariant ==
  /\ HeapType /\ IdsPositive /\ FilesSound
  /\ phase \in Phases /\ (phase = "down" => heap = Globals)
  /\ AllRegistered /\ LiveSound /\ Writing /\ Restoring /\ Reanimating
  /\ Deleting /\ OnlyCollisionsLeft

(* A list has its length for its domain.                                   *)
LEMMA ListDomain ==
  ASSUME NEW s, IsList(s) PROVE Len(s) \in Nat /\ DOMAIN s = 1 .. Len(s)
  <1>1. PICK S : s \in Seq(S) BY DEF IsList, IsSequence
  <1> QED BY <1>1

(* Null is no address.                                                     *)
LEMMA Addresses ==
  /\ World # 0 /\ Simulation # 0 /\ 0 \notin Addr /\ 0 \notin Static
  /\ World # Simulation /\ World \notin Addr /\ Simulation \notin Addr
  /\ Static = {World, Simulation} /\ Null = 0
  BY AddrAssumption DEF Static, Null

(* A blank heap is in order.                                               *)
LEMMA GlobalsOk ==
  /\ HeapOk(Globals) /\ DOMAIN Globals = Static
  /\ Globals[World] = Blank("world") /\ Globals[Simulation] = Blank("simulation")
  <1>1. /\ DOMAIN Globals = Static /\ Globals = [a \in Static |-> Globals[a]]
        /\ Globals[World] = Blank("world")
        /\ Globals[Simulation] = Blank("simulation")
    BY Addresses DEF Globals
  <1>2. "world" \in Class /\ "simulation" \in Class BY Classes
  <1>3. /\ IsObject(Blank("world")) /\ Blank("world").class = "world"
        /\ IsObject(Blank("simulation")) /\ Blank("simulation").class = "simulation"
    BY <1>2, BlankObject
  <1>4. \A a \in Static : a = World \/ a = Simulation BY Addresses
  <1> QED BY <1>1, <1>3, <1>4, Addresses DEF HeapOk, Fits

(* g is the heap h with o at address a, where there may have been another. *)
Placed(g, h, a, o) ==
  /\ HeapOk(g) /\ DOMAIN g = DOMAIN h \cup {a} /\ g[a] = o
  /\ \A b \in DOMAIN h : b # a => g[b] = h[b]

(* A new object in a heap.                                                 *)
LEMMA WithOk ==
  ASSUME NEW h, HeapOk(h), NEW a \in Static \cup Addr, NEW o, Fits(a, o)
  PROVE  Placed(With(h, a, o), h, a, o)
  <1> DEFINE w == With(h, a, o)
  <1>1. /\ DOMAIN w = DOMAIN h \cup {a} /\ w[a] = o
        /\ \A b \in DOMAIN h : b # a => w[b] = h[b]
        /\ w = [b \in DOMAIN w |-> w[b]]
    BY DEF With
  <1> HIDE DEF w
  <1>2. HeapOk(w) BY <1>1 DEF HeapOk
  <1>3. Placed(w, h, a, o) BY <1>1, <1>2 DEF Placed
  <1> QED BY <1>3 DEF w

(* An object of a heap that is changed, but for its class.                 *)
LEMMA ChangedOk ==
  ASSUME NEW h, HeapOk(h), NEW a \in DOMAIN h, NEW o, IsObject(o),
         o.class = h[a].class
  PROVE  Placed([h EXCEPT ![a] = o], h, a, o)
  <1> DEFINE g == [h EXCEPT ![a] = o]
  <1>1. /\ DOMAIN g = DOMAIN h \cup {a} /\ g[a] = o
        /\ \A b \in DOMAIN h : b # a => g[b] = h[b]
        /\ g = [b \in DOMAIN g |-> g[b]]
    BY DEF HeapOk
  <1> HIDE DEF g
  <1>2. HeapOk(g) BY <1>1 DEF HeapOk, Fits
  <1>3. Placed(g, h, a, o) BY <1>1, <1>2 DEF Placed
  <1> QED BY <1>3 DEF g

(* A pointer of an object that is set.                                     *)
SetPtr(o, m, p) == [o EXCEPT !.ptr = [@ EXCEPT ![m] = p]]

LEMMA SetPointer ==
  ASSUME NEW o, IsObject(o), NEW m \in Members(o.class), NEW p,
         NEW c, c = SetPtr(o, m, p)
  PROVE  /\ IsObject(c) /\ c.class = o.class /\ c.val = o.val
         /\ \A k \in Members(o.class) :
              c.ptr[k] = IF k = m THEN p ELSE o.ptr[k]
  <1> DEFINE q == [o.ptr EXCEPT ![m] = p]
  <1>1. /\ o = [class |-> o.class, val |-> o.val, ptr |-> o.ptr]
        /\ o.class \in Class /\ o.ptr = [k \in Members(o.class) |-> o.ptr[k]]
    BY DEF IsObject
  <1>2. /\ q = [k \in Members(o.class) |-> q[k]]
        /\ \A k \in Members(o.class) : q[k] = IF k = m THEN p ELSE o.ptr[k]
    BY <1>1
  <1> HIDE DEF q
  <1>3. c = [class |-> o.class, val |-> o.val, ptr |-> q]
    BY <1>1 DEF q, SetPtr
  <1>4. c.class = o.class /\ c.val = o.val /\ c.ptr = q BY <1>3
  <1>5. IsObject(c) BY <1>1, <1>2, <1>3, <1>4 DEF IsObject
  <1> QED BY <1>2, <1>4, <1>5

(* The memory's nodes are those of the registry and of the heap.           *)
LEMMA MemoryNodes ==
  /\ DOMAIN Memory = DOMAIN registry
  /\ \A i \in DOMAIN registry :
       Memory[i].id = registry[i].obj /\ Memory[i].obj = heap[registry[i].obj]
  BY DEF Memory, Node

(* Registered objects are typed and distinct.                              *)
LEMMA MemoryTyped ==
  ASSUME HeapType PROVE Typed(Memory) /\ Distinct(Memory)
  <1>1. \A i \in DOMAIN registry :
          registry[i].obj \in DOMAIN heap /\ registry[i].obj # 0
    BY Addresses DEF HeapType, Registered, HeapOk, Fits
  <1>2. Typed(Memory) BY <1>1, MemoryNodes DEF HeapType, HeapOk, Fits, Typed
  <1>3. Distinct(Memory)
    BY <1>1, MemoryNodes DEF HeapType, Injective, Distinct
  <1> QED BY <1>2, <1>3
---------------------------------------------------------------------------
(* Initially the heap is blank and no file is complete.                    *)
LEMMA InitPointers == Init => PointerInvariant
  <1> SUFFICES ASSUME Init PROVE PointerInvariant OBVIOUS
  <1>1. DOMAIN registry = {} /\ registry = <<>>
    <2>1. IsList(<<>>) /\ Len(<<>>) = 0 BY EmptyList
    <2>2. DOMAIN <<>> = 1 .. 0 BY <2>1, ListDomain
    <2> QED BY <2>2 DEF Init
  <1>2. HeapType BY <1>1, GlobalsOk DEF Init, HeapType, Registered, Injective
  <1>3. IdsPositive /\ FilesSound
    <2>1. \A n \in Name : file[n].nodes = <<>> /\ ~ file[n].complete
      BY DEF Init, NoFile
    <2>2. next_id >= 1 BY DEF Init
    <2>3. \A n \in Name : DOMAIN file[n].nodes = {} BY <1>1, <2>1
    <2> QED BY <1>1, <2>1, <2>2, <2>3 DEF IdsPositive, FilesSound
  <1> QED
    BY <1>2, <1>3
    DEF Init, PointerInvariant, Phases, AllRegistered, LiveSound, Writing,
        Restoring, Reanimating, Deleting, OnlyCollisionsLeft

(* The world and an empty simulation are sound.                            *)
LEMMA StartSound ==
  ASSUME NEW a, a \in Addr, NEW L, DOMAIN L = 1 .. 2,
         L[1] = [id |-> World, obj |-> Blank("world")],
         L[2] = [id |-> a, obj |-> Blank("vpic")]
  PROVE  Sound(L, 2)
  <1>1. /\ \A i \in DOMAIN L : i = 1 \/ i = 2
        /\ 1 \in DOMAIN L /\ 2 \in DOMAIN L
        /\ L[1].id = World /\ L[2].id = a
        /\ L[1].obj = Blank("world") /\ L[2].obj = Blank("vpic")
    OBVIOUS
  <1>2. /\ IsObject(Blank("world")) /\ Blank("world").class = "world"
        /\ IsObject(Blank("vpic")) /\ Blank("vpic").class = "vpic"
        /\ \A m \in Members("vpic") : Blank("vpic").ptr[m] = 0
    BY Classes, BlankObject
  <1>3. Typed(L) BY <1>1, <1>2 DEF Typed
  <1>4. Distinct(L) BY <1>1, Addresses DEF Distinct
  <1>5. Backed(L) BY <1>1, <1>2, Classes DEF Backed
  <1>6. Rooted(L)
    <2>1. \A i \in DOMAIN L : /\ L[i].obj.class = "world" <=> i = 1
                              /\ L[i].obj.class = "vpic" <=> i = 2
                              /\ L[i].obj.class # "simulation"
      BY <1>1, <1>2
    <2> QED BY <1>1, <2>1 DEF Rooted
  <1>7. Chained(L, 2, L[2].obj.ptr.species_list)
    <2>1. L[2].obj.ptr.species_list = 0 BY <1>1, <1>2, Classes
    <2>2. \A i \in DOMAIN L : ~ IsSpecies(L, i) BY <1>1, <1>2 DEF IsSpecies
    <2> QED BY <2>1, <2>2 DEF Chained, Latest
  <1> QED BY <1>3, <1>4, <1>5, <1>6, <1>7 DEF Sound

LEMMA StartPointers ==
  ASSUME PointerInvariant, StartUp PROVE PointerInvariant'
  <1>1. PICK a \in Addr :
          /\ registry' = <<Node(1, World), Node(2, a)>>
          /\ heap' = With([Globals EXCEPT ![Simulation].ptr.simulation = a],
                          a, Blank("vpic"))
    BY DEF StartUp
  <1> DEFINE main == SetPtr(Blank("simulation"), "simulation", a)
             g == [Globals EXCEPT ![Simulation] = main]
  <1>2. "simulation" \in Class /\ "vpic" \in Class
        /\ "simulation" \in Members("simulation")
    BY Classes
  <1>3. /\ IsObject(main) /\ main.class = "simulation"
        /\ main.ptr["simulation"] = a
    <2>1. IsObject(Blank("simulation")) /\ Blank("simulation").class = "simulation"
      BY <1>2, BlankObject
    <2> QED BY <1>2, <2>1, SetPointer
  <1>4. heap' = With(g, a, Blank("vpic")) BY <1>1, GlobalsOk DEF SetPtr
  <1> HIDE DEF main
  <1>5. /\ HeapOk(g) /\ DOMAIN g = Static /\ g[Simulation] = main
        /\ g[World] = Blank("world")
    <2>1. Simulation \in DOMAIN Globals /\ HeapOk(Globals)
      BY Addresses, GlobalsOk
    <2>2. main.class = Globals[Simulation].class
      BY <1>2, <1>3, GlobalsOk, BlankObject
    <2>3. Placed(g, Globals, Simulation, main)
      BY <1>3, <2>1, <2>2, ChangedOk
    <2> QED BY <2>1, <2>3, GlobalsOk, Addresses DEF Placed
  <1> HIDE DEF g
  <1>6. /\ IsObject(Blank("vpic")) /\ Blank("vpic").class = "vpic"
        /\ \A m \in Members("vpic") : Blank("vpic").ptr[m] = 0
    BY <1>2, BlankObject
  <1>7. a # World /\ a # Simulation /\ a # 0 /\ a \in Static \cup Addr
    BY Addresses
  <1>8. /\ HeapOk(heap') /\ DOMAIN heap' = Static \cup {a}
        /\ heap'[a] = Blank("vpic") /\ heap'[Simulation] = main
        /\ heap'[World] = Blank("world")
    <2>1. Fits(a, Blank("vpic")) BY <1>6, <1>7 DEF Fits
    <2>2. Placed(heap', g, a, Blank("vpic"))
      BY <1>4, <1>5, <1>7, <2>1, WithOk
    <2> QED BY <1>5, <1>7, <2>2, Addresses DEF Placed
  <1>9. /\ DOMAIN registry' = 1 .. 2 /\ Len(registry') = 2
        /\ registry'[1].obj = World /\ registry'[1].id = 1
        /\ registry'[2].obj = a /\ registry'[2].id = 2
    BY <1>1 DEF Node
  <1>10. \A i \in DOMAIN registry' : i = 1 \/ i = 2 BY <1>9
  <1>11. Registered' = {World, a} BY <1>9, <1>10 DEF Registered
  <1>12. HeapType'
    BY <1>7, <1>8, <1>9, <1>10, <1>11, Addresses DEF HeapType, Injective
  <1>13. Sound(Memory', 2)
    <2>1. DOMAIN Memory' = 1 .. 2 BY <1>9 DEF Memory
    <2>2. Memory'[1] = [id |-> World, obj |-> Blank("world")]
      BY <1>8, <1>9 DEF Memory, Node
    <2>3. Memory'[2] = [id |-> a, obj |-> Blank("vpic")]
      BY <1>8, <1>9 DEF Memory, Node
    <2> QED BY <2>1, <2>2, <2>3, StartSound
  <1>14. Vpic' = registry'[2].obj BY <1>3, <1>8, <1>9 DEF Vpic
  <1>15. LiveSound'
    BY <1>7, <1>9, <1>11, <1>13, <1>14, Addresses DEF StartUp, LiveSound
  <1>16. IdsPositive' BY <1>9, <1>10 DEF PointerInvariant, IdsPositive, StartUp
  <1>17. FilesSound' BY DEF PointerInvariant, FilesSound, StartUp
  <1>18. AllRegistered' BY <1>8, <1>11, Addresses DEF AllRegistered
  <1> QED
    BY <1>12, <1>15, <1>16, <1>17, <1>18
    DEF StartUp, PointerInvariant, Phases, Writing,
        Restoring, Reanimating, Deleting, OnlyCollisionsLeft

(* A node that is appended to the registry.                                *)
LEMMA AppendRegistry ==
  ASSUME IsList(registry), Injective(registry), NEW a, a \notin Registered,
         NEW id \in Nat, registry' = Append(registry, Node(id, a))
  PROVE  /\ Len(registry) \in Nat /\ DOMAIN registry = 1 .. Len(registry)
         /\ Len(registry') = Len(registry) + 1
         /\ DOMAIN registry' = 1 .. Len(registry) + 1
         /\ \A i \in 1 .. Len(registry) : registry'[i] = registry[i]
         /\ registry'[Len(registry) + 1].id = id
         /\ registry'[Len(registry) + 1].obj = a
         /\ Injective(registry') /\ Registered' = Registered \cup {a}
         /\ \A i \in 1 .. Len(registry) : registry[i].obj # a
  <1> DEFINE n == Len(registry)
             e == Node(id, a)
  <1>1. e.id = id /\ e.obj = a BY DEF Node
  <1> HIDE DEF e
  <1>2. /\ n \in Nat /\ DOMAIN registry = 1 .. n
        /\ Len(registry') = n + 1 /\ DOMAIN registry' = 1 .. n + 1
        /\ \A i \in 1 .. n : registry'[i] = registry[i]
        /\ registry'[n + 1] = e
    BY <1>1, AppendList DEF e
  <1> HIDE DEF n
  <1>3. \A i \in 1 .. n + 1 : i \in 1 .. n \/ i = n + 1 BY <1>2
  <1>4. \A i \in 1 .. n : registry[i].obj # a BY <1>2 DEF Registered
  <1>5. Injective(registry')
    <2> SUFFICES ASSUME NEW i \in 1 .. n + 1, NEW j \in 1 .. n + 1,
                        registry'[i].obj = registry'[j].obj
                 PROVE  i = j
      BY <1>2 DEF Injective
    <2>1. CASE i \in 1 .. n /\ j \in 1 .. n BY <1>2, <2>1 DEF Injective
    <2>2. CASE i = n + 1 \/ j = n + 1 BY <1>1, <1>2, <1>3, <1>4, <2>2
    <2> QED BY <1>3, <2>1, <2>2
  <1>6. Registered' = Registered \cup {a}
    <2>1. \A i \in 1 .. n : registry'[i].obj = registry[i].obj BY <1>2
    <2>2. registry'[n + 1].obj = a BY <1>1, <1>2
    <2>3. n + 1 \in 1 .. n + 1 /\ 1 .. n \subseteq 1 .. n + 1 BY <1>2
    <2> QED BY <1>2, <1>3, <2>1, <2>2, <2>3 DEF Registered
  <1> QED BY <1>1, <1>2, <1>4, <1>5, <1>6 DEF n

(* What holds while the program is alive.                                  *)
LEMMA LiveFacts ==
  ASSUME PointerInvariant, IdInvariant,
         phase \in {"initialize", "advance", "write", "finalize"}
  PROVE  /\ Len(registry) \in Nat /\ DOMAIN registry = 1 .. Len(registry)
         /\ DOMAIN Memory = 1 .. Len(registry)
         /\ \A i \in 1 .. Len(registry) :
              /\ Memory[i].id = registry[i].obj /\ Memory[i].obj = ObjectAt(i)
              /\ registry[i].obj \in DOMAIN heap /\ registry[i].obj # 0
         /\ 1 \in 1 .. Len(registry) /\ 2 \in 1 .. Len(registry)
         /\ Sound(Memory, Len(registry)) /\ Vpic = registry[2].obj
         /\ Vpic \in DOMAIN heap /\ heap[Vpic].class = "vpic"
         /\ HeapOk(heap) /\ Injective(registry) /\ IsList(registry)
         /\ Registered \subseteq DOMAIN heap /\ registry[1].obj = World
  <1>1. /\ IsList(registry) /\ Sound(Memory, Len(registry)) /\ HeapType
        /\ Vpic = registry[2].obj
    BY DEF PointerInvariant, IdInvariant, RegistryType, LiveSound
  <1>2. Len(registry) \in Nat /\ DOMAIN registry = 1 .. Len(registry)
    BY <1>1, ListDomain
  <1>3. /\ DOMAIN Memory = 1 .. Len(registry)
        /\ \A i \in 1 .. Len(registry) :
             Memory[i].id = registry[i].obj /\ Memory[i].obj = ObjectAt(i)
    BY <1>2, MemoryNodes DEF ObjectAt
  <1>4. /\ 1 \in 1 .. Len(registry) /\ 2 \in 1 .. Len(registry)
        /\ Memory[1].obj.class = "world" /\ Memory[2].obj.class = "vpic"
    BY <1>1, <1>3 DEF Sound, Rooted
  <1>5. \A i \in 1 .. Len(registry) : registry[i].obj \in DOMAIN heap
    BY <1>1, <1>2 DEF HeapType, Registered
  <1>6. \A i \in 1 .. Len(registry) : registry[i].obj # 0
    BY <1>1, <1>3 DEF Sound, Distinct
  <1>7. heap[Vpic].class = "vpic" /\ registry[1].obj = World
    BY <1>1, <1>3, <1>4, <1>5 DEF ObjectAt, HeapType, HeapOk, Fits
  <1> QED BY <1>1, <1>2, <1>3, <1>4, <1>5, <1>6, <1>7 DEF HeapType

(* An object that a list of the simulation may take up.                    *)
ListObject(head, o) ==
  /\ IsObject(o) /\ o.class \in {"species", "collision"}
  /\ o.class \in Target(head) /\ (o.class = "species" <=> head = "species_list")
  /\ \A m \in Members(o.class) \ {"next"} : o.ptr[m] # 0 =>
       \E j \in DOMAIN registry : /\ registry[j].obj = o.ptr[m]
                                  /\ ObjectAt(j).class \in Target(m)

(* A new species or collision operator, in front of its list.              *)
LEMMA DefinePointers ==
  ASSUME PointerInvariant, IdInvariant, NEW head \in Members("vpic"),
         NEW a \in Free, NEW o, ListObject(head, o), Define(head, a, o)
  PROVE  PointerInvariant'
  <1> DEFINE n == Len(registry)
             old == heap[Vpic].ptr[head]
             new == SetPtr(o, "next", old)
             mem == With(heap, a, new)
             v == SetPtr(heap[Vpic], head, a)
  <1>0. /\ IsObject(o) /\ o.class \in {"species", "collision"}
        /\ o.class \in Target(head)
        /\ o.class = "species" <=> head = "species_list"
    BY DEF ListObject
  <1>1. /\ phase \in {"initialize", "advance"} /\ UNCHANGED <<phase, file, name, at>>
        /\ registry' = Append(registry, Node(next_id, a))
        /\ next_id' = next_id + 1
        /\ heap' = Prepend(heap, head, a, o)
    BY DEF Define, register_object
  <1>2. /\ n \in Nat /\ DOMAIN registry = 1 .. n /\ DOMAIN Memory = 1 .. n
        /\ \A i \in 1 .. n :
             /\ Memory[i].id = registry[i].obj /\ Memory[i].obj = ObjectAt(i)
             /\ registry[i].obj \in DOMAIN heap /\ registry[i].obj # 0
        /\ 1 \in 1 .. n /\ 2 \in 1 .. n /\ Sound(Memory, n) /\ Vpic = registry[2].obj
        /\ Vpic \in DOMAIN heap /\ heap[Vpic].class = "vpic" /\ HeapOk(heap)
        /\ Injective(registry) /\ IsList(registry) /\ Registered \subseteq DOMAIN heap
    BY <1>1, LiveFacts
  <1>3. /\ a \in Addr /\ a \notin DOMAIN heap /\ a # 0 /\ a \notin Static
        /\ a \notin Registered /\ Vpic # a /\ a # World /\ a # Simulation
        /\ Vpic # Simulation
    BY <1>2, Addresses DEF Free, HeapOk, Fits
  <1>4. next_id \in Nat BY DEF IdInvariant, RegistryType
  <1>5. /\ Len(registry') = n + 1 /\ DOMAIN registry' = 1 .. n + 1
        /\ \A i \in 1 .. n : registry'[i] = registry[i] /\ registry[i].obj # a
        /\ registry'[n + 1].id = next_id /\ registry'[n + 1].obj = a
        /\ Injective(registry') /\ Registered' = Registered \cup {a}
    BY <1>1, <1>2, <1>3, <1>4, AppendRegistry
  <1>6. "next" \in Members(o.class) /\ "next" # "simulation"
        /\ {"species_list", "collision_op_list"} = Members("vpic")
    BY <1>0, Classes
  <1>7. /\ IsObject(new) /\ new.class = o.class
        /\ \A m \in Members(o.class) :
             new.ptr[m] = IF m = "next" THEN old ELSE o.ptr[m]
    BY <1>0, <1>6, SetPointer
  <1>8. /\ IsObject(v) /\ v.class = "vpic"
        /\ \A m \in Members("vpic") :
             v.ptr[m] = IF m = head THEN a ELSE heap[Vpic].ptr[m]
    <2>1. IsObject(heap[Vpic]) BY <1>2 DEF HeapOk, Fits
    <2>2. heap[Vpic].class = "vpic" BY <1>2
    <2>3. head \in Members(heap[Vpic].class) BY <2>2
    <2> QED BY <2>1, <2>2, <2>3, SetPointer
  <1> HIDE DEF old
  <1>9. heap' = [mem EXCEPT ![Vpic] = SetPtr(mem[Vpic], head, a)]
    BY <1>1 DEF Prepend, old, SetPtr
  <1> HIDE DEF new
  <1>10. Placed(mem, heap, a, new)
    <2>1. new.class # "world" /\ new.class # "simulation" BY <1>0, <1>7
    <2>2. Fits(a, new) BY <1>3, <1>7, <2>1 DEF Fits
    <2>3. a \in Static \cup Addr /\ HeapOk(heap) BY <1>2, <1>3
    <2> QED BY <2>2, <2>3, WithOk
  <1> HIDE DEF mem
  <1>11. Placed(heap', mem, Vpic, v)
    <2>1. /\ Vpic \in DOMAIN mem /\ HeapOk(mem) /\ mem[Vpic] = heap[Vpic]
          /\ v.class = mem[Vpic].class
      BY <1>2, <1>3, <1>8, <1>10 DEF Placed
    <2>2. heap' = [mem EXCEPT ![Vpic] = v] BY <1>9, <2>1
    <2> HIDE DEF v
    <2> QED BY <1>8, <2>1, <2>2, ChangedOk
  <1> HIDE DEF v
  <1>12. /\ HeapOk(heap') /\ DOMAIN heap' = DOMAIN heap \cup {a}
         /\ heap'[a] = new /\ heap'[Vpic] = v
         /\ \A b \in DOMAIN heap \ {Vpic} : heap'[b] = heap[b]
    BY <1>2, <1>3, <1>10, <1>11 DEF Placed
  <1>13. HeapType' BY <1>2, <1>5, <1>12 DEF HeapType
  <1>14. Typed(Memory') /\ DOMAIN Memory' = 1 .. n + 1
         /\ \A i \in 1 .. n + 1 : /\ Memory'[i].id = registry'[i].obj
                                  /\ Memory'[i].obj = heap'[registry'[i].obj]
    <2>1. DOMAIN Memory' = 1 .. n + 1
          /\ \A i \in 1 .. n + 1 : /\ Memory'[i].id = registry'[i].obj
                                   /\ Memory'[i].obj = heap'[registry'[i].obj]
      BY <1>5 DEF Memory, Node
    <2>2. \A i \in 1 .. n + 1 : registry'[i].obj \in DOMAIN heap'
      BY <1>5, <1>13 DEF HeapType, Registered
    <2> QED BY <1>12, <2>1, <2>2 DEF Typed, HeapOk, Fits
  <1>15. n + 1 \in 1 .. n + 1 /\ \A i \in 1 .. n : i \in 1 .. n + 1 BY <1>2
  <1>16. Memory'[n + 1].id = a /\ Memory'[n + 1].obj = new
    BY <1>5, <1>12, <1>14, <1>15
  <1>17. \A i \in 1 .. n : /\ Memory'[i].id = Memory[i].id /\ Memory[i].id # a
                           /\ i # 2 => Memory'[i].obj = Memory[i].obj
    <2> SUFFICES ASSUME NEW i \in 1 .. n
                 PROVE  /\ Memory'[i].id = Memory[i].id /\ Memory[i].id # a
                        /\ i # 2 => Memory'[i].obj = Memory[i].obj
      OBVIOUS
    <2>1. i # 2 => registry[i].obj # Vpic BY <1>2 DEF Injective
    <2> QED BY <1>2, <1>5, <1>12, <1>14, <1>15, <2>1 DEF ObjectAt
  <1>18. Memory[2].obj = heap[Vpic] /\ Memory'[2].obj = v
    BY <1>2, <1>5, <1>12, <1>14, <1>15 DEF ObjectAt
  <1>19. \A i \in 1 .. n : Memory'[i].obj.class = Memory[i].obj.class
    BY <1>2, <1>8, <1>17, <1>18
  <1>20. \A m \in Members(o.class) : new.ptr[m] # 0 =>
           \E j \in 1 .. n : /\ Memory[j].id = new.ptr[m]
                             /\ Memory[j].obj.class \in Target(m)
    <2> SUFFICES ASSUME NEW m \in Members(o.class), new.ptr[m] # 0
                 PROVE  \E j \in 1 .. n : /\ Memory[j].id = new.ptr[m]
                                          /\ Memory[j].obj.class \in Target(m)
      OBVIOUS
    <2>1. CASE m = "next"
      <3>1. new.ptr[m] = Memory[2].obj.ptr[head] BY <1>7, <1>18, <2>1 DEF old
      <3>2. Refers(Memory, 2, head, new.ptr[m])
        BY <1>2, <1>18, <3>1 DEF Sound, Backed
      <3>3. PICK j \in 1 .. n : /\ Memory[j].id = new.ptr[m]
                                /\ Memory[j].obj.class \in Target(head)
        BY <1>2, <3>2 DEF Refers
      <3>4. Target(head) \subseteq Target("next") BY <1>6, Targets
      <3> QED BY <2>1, <3>3, <3>4
    <2>2. CASE m # "next" BY <1>2, <1>7, <2>2 DEF ListObject
    <2> QED BY <2>1, <2>2
  <1>21. Sound(Memory', n + 1)
    <2>1. new.class = "species" => new.ptr.next = Memory[2].obj.ptr.species_list
      BY <1>0, <1>6, <1>7, <1>18 DEF old
    <2>2. \A m \in Members("vpic") :
            Memory'[2].obj.ptr[m] = IF m = head THEN a ELSE Memory[2].obj.ptr[m]
      BY <1>8, <1>18
    <2>3. \A i \in 1 .. n :
            /\ Memory[i].id # a /\ Memory'[i].id = Memory[i].id
            /\ Memory'[i].obj.class = Memory[i].obj.class
            /\ i # 2 => Memory'[i].obj.ptr = Memory[i].obj.ptr
      BY <1>17, <1>19
    <2>4. /\ new.class \in {"species", "collision", "simulation"}
          /\ new.class # "simulation" /\ new.class \in Target(head)
          /\ new.class = "species" <=> head = "species_list"
      BY <1>0, <1>7
    <2>5. \A m \in Members(new.class) : new.ptr[m] # 0 =>
           \E j \in 1 .. n : /\ Memory[j].id = new.ptr[m]
                             /\ Memory[j].obj.class \in Target(m)
      BY <1>7, <1>20
    <2> QED
      <3>1. Grown(Memory', Memory, n, head, a, new)
        BY <1>3, <1>14, <1>16, <2>1, <2>2, <2>3, <2>4, <2>5 DEF Grown
      <3> QED BY <1>2, <3>1, AppendSound
  <1>22. LiveSound'
    <2>1. heap'[Simulation] = heap[Simulation]
      BY <1>2, <1>3, <1>12 DEF HeapOk, Fits, Static
    <2>2. Vpic' = registry'[2].obj BY <1>2, <1>5, <2>1 DEF Vpic
    <2>3. Simulation \in Registered' <=> Simulation \in Registered BY <1>3, <1>5
    <2> QED
      BY <1>1, <1>5, <1>21, <2>2, <2>3 DEF LiveSound, PointerInvariant
  <1>23. IdsPositive'
    <2>1. next_id >= 1 /\ next_id' >= 1
      BY <1>1, <1>4 DEF PointerInvariant, IdsPositive
    <2>2. \A i \in 1 .. n + 1 : registry'[i].id >= 1
      <3> SUFFICES ASSUME NEW i \in 1 .. n + 1 PROVE registry'[i].id >= 1
        OBVIOUS
      <3>1. CASE i \in 1 .. n BY <1>2, <1>5, <3>1 DEF PointerInvariant, IdsPositive
      <3>2. CASE i = n + 1 BY <1>5, <2>1, <3>2
      <3> QED BY <1>2, <3>1, <3>2
    <2> QED BY <1>1, <1>5, <2>1, <2>2 DEF PointerInvariant, IdsPositive
  <1>24. FilesSound' BY <1>1 DEF PointerInvariant, FilesSound
  <1>25. AllRegistered'
    BY <1>1, <1>5, <1>12 DEF PointerInvariant, AllRegistered
  <1> QED
    BY <1>1, <1>13, <1>22, <1>23, <1>24, <1>25
    DEF PointerInvariant, Phases, Writing,
        Restoring, Reanimating, Deleting, OnlyCollisionsLeft

LEMMA DefineSpeciesPointers ==
  ASSUME PointerInvariant, IdInvariant, DefineSpecies PROVE PointerInvariant'
  <1> DEFINE o == Blank("species")
  <1>1. PICK a \in Free : Define("species_list", a, o) BY DEF DefineSpecies
  <1>2. "species_list" \in Members("vpic") /\ "species" \in Class BY Classes
  <1>3. ListObject("species_list", o)
    <2>1. IsObject(o) /\ o.class = "species" BY <1>2, BlankObject
    <2> HIDE DEF o
    <2> QED BY <2>1, Classes, Targets DEF ListObject
  <1> HIDE DEF o
  <1> QED BY <1>1, <1>2, <1>3, DefinePointers

(* The species of a new collision operator is registered.                  *)
LEMMA DefineCollisionPointers ==
  ASSUME PointerInvariant, IdInvariant, DefineCollision PROVE PointerInvariant'
  <1>1. PICK a \in Free, s \in DOMAIN heap :
          /\ heap[s].class = "species"
          /\ Define("collision_op_list", a, [Blank("collision") EXCEPT !.ptr.sp = s])
    BY DEF DefineCollision
  <1> DEFINE o == SetPtr(Blank("collision"), "sp", s)
  <1>2. /\ "collision_op_list" \in Members("vpic") /\ "collision" \in Class
        /\ Members("collision") = {"sp", "next"}
    BY Classes
  <1>3. Define("collision_op_list", a, o) BY <1>1 DEF SetPtr
  <1>4. PICK j \in DOMAIN registry :
          registry[j].obj = s /\ ObjectAt(j).class = "species"
    <2>1. phase \in {"initialize", "advance"} BY <1>1 DEF Define
    <2>2. s \in Static \cup Registered
      BY <1>1, <2>1 DEF PointerInvariant, AllRegistered
    <2>3. s # World /\ s # Simulation
      BY <1>1 DEF PointerInvariant, HeapType, HeapOk, Fits
    <2> QED BY <1>1, <2>2, <2>3, Addresses DEF Registered, ObjectAt
  <1>5. /\ IsObject(o) /\ o.class = "collision" /\ o.ptr["sp"] = s
    <2>1. IsObject(Blank("collision")) /\ Blank("collision").class = "collision"
      BY <1>2, BlankObject
    <2> QED BY <1>2, <2>1, SetPointer
  <1> HIDE DEF o
  <1>6. ListObject("collision_op_list", o)
    BY <1>2, <1>4, <1>5, Targets DEF ListObject
  <1> QED BY <1>2, <1>3, <1>6, DefinePointers

(* Main's pointer leads to the simulation, which is registered.            *)
LEMMA RegisterMainPointers ==
  ASSUME PointerInvariant, IdInvariant, RegisterMain PROVE PointerInvariant'
  <1> DEFINE n == Len(registry)
             o == heap[Simulation]
  <1>1. /\ phase = "initialize" /\ phase' = "advance"
        /\ registry' = Append(registry, Node(next_id, Simulation))
        /\ next_id' = next_id + 1 /\ UNCHANGED <<heap, file, name, at>>
    BY DEF RegisterMain, register_object
  <1>2. /\ n \in Nat /\ DOMAIN registry = 1 .. n /\ DOMAIN Memory = 1 .. n
        /\ \A i \in 1 .. n :
             /\ Memory[i].id = registry[i].obj /\ Memory[i].obj = ObjectAt(i)
             /\ registry[i].obj \in DOMAIN heap
        /\ 1 \in 1 .. n /\ 2 \in 1 .. n /\ Sound(Memory, n) /\ Vpic = registry[2].obj
        /\ Vpic \in DOMAIN heap /\ heap[Vpic].class = "vpic" /\ HeapOk(heap)
        /\ Injective(registry) /\ IsList(registry) /\ Registered \subseteq DOMAIN heap
    BY <1>1, LiveFacts
  <1>3. Simulation \notin Registered
    BY <1>1 DEF PointerInvariant, LiveSound
  <1>4. next_id \in Nat BY DEF IdInvariant, RegistryType
  <1>5. /\ Len(registry') = n + 1 /\ DOMAIN registry' = 1 .. n + 1
        /\ \A i \in 1 .. n : registry'[i] = registry[i] /\ registry[i].obj # Simulation
        /\ registry'[n + 1].id = next_id /\ registry'[n + 1].obj = Simulation
        /\ Injective(registry') /\ Registered' = Registered \cup {Simulation}
    BY <1>1, <1>2, <1>3, <1>4, AppendRegistry
  <1>6. Simulation \in DOMAIN heap BY <1>2, Addresses DEF HeapOk
  <1>7. HeapType' BY <1>1, <1>2, <1>5, <1>6 DEF HeapType
  <1>8. IsObject(o) /\ o.class = "simulation" /\ o.ptr.simulation = Vpic
    BY <1>2, <1>6 DEF HeapOk, Fits, Vpic
  <1>9. n + 1 \in 1 .. n + 1 /\ \A i \in 1 .. n : i \in 1 .. n + 1 BY <1>2
  <1>10. /\ DOMAIN Memory' = 1 .. n + 1
         /\ \A i \in 1 .. n + 1 : /\ Memory'[i].id = registry'[i].obj
                                  /\ Memory'[i].obj = heap[registry'[i].obj]
    BY <1>1, <1>5 DEF Memory, Node
  <1>11. /\ Memory'[n + 1].id = Simulation /\ Memory'[n + 1].obj = o
         /\ \A i \in 1 .. n : /\ Memory'[i].id = Memory[i].id
                              /\ Memory'[i].obj = Memory[i].obj
                              /\ Memory[i].id # Simulation
    BY <1>2, <1>5, <1>9, <1>10 DEF ObjectAt
  <1>12. Typed(Memory')
    <2>1. \A i \in 1 .. n + 1 : registry'[i].obj \in Registered'
      BY <1>5 DEF Registered
    <2>2. \A i \in 1 .. n + 1 : registry'[i].obj \in DOMAIN heap
      BY <1>2, <1>5, <1>6, <2>1
    <2> QED BY <1>2, <1>10, <2>2 DEF HeapOk, Fits, Typed
  <1> HIDE DEF o
  <1>13. Grown(Memory', Memory, n, "none", Simulation, o)
    <2>1. /\ "none" \notin Members("vpic") /\ Members("simulation") = {"simulation"}
          /\ Target("simulation") = {"vpic"}
      BY Classes, Targets
    <2>2. \A m \in Members("vpic") : m # "none" BY <2>1
    <2>3. /\ Memory[2].id = o.ptr.simulation /\ Memory[2].obj.class = "vpic"
      BY <1>2, <1>8 DEF ObjectAt
    <2>4. \A i \in 1 .. n : Memory[i].obj.class # "simulation"
      BY <1>2, <1>5 DEF ObjectAt, HeapOk, Fits
    <2> QED
      BY <1>2, <1>8, <1>10, <1>11, <1>12, <2>1, <2>2, <2>3, <2>4, Addresses
      DEF Grown
  <1>14. Sound(Memory', n + 1) BY <1>2, <1>13, AppendSound
  <1>15. LiveSound'
    <2>1. Vpic' = registry'[2].obj BY <1>1, <1>2, <1>5 DEF Vpic
    <2> QED BY <1>1, <1>5, <1>14, <2>1 DEF LiveSound
  <1>16. IdsPositive'
    <2>1. next_id >= 1 /\ next_id' >= 1
      BY <1>1, <1>4 DEF PointerInvariant, IdsPositive
    <2>2. \A i \in 1 .. n + 1 : registry'[i].id >= 1
      <3> SUFFICES ASSUME NEW i \in 1 .. n + 1 PROVE registry'[i].id >= 1
        OBVIOUS
      <3>1. CASE i \in 1 .. n BY <1>2, <1>5, <3>1 DEF PointerInvariant, IdsPositive
      <3>2. CASE i = n + 1 BY <1>5, <2>1, <3>2
      <3> QED BY <1>2, <3>1, <3>2
    <2> QED BY <1>1, <1>5, <2>1, <2>2 DEF PointerInvariant, IdsPositive
  <1>17. FilesSound' BY <1>1 DEF PointerInvariant, FilesSound
  <1>18. AllRegistered'
    BY <1>1, <1>5, Addresses DEF PointerInvariant, AllRegistered
  <1> QED
    BY <1>1, <1>7, <1>15, <1>16, <1>17, <1>18
    DEF PointerInvariant, Phases, Writing,
        Restoring, Reanimating, Deleting, OnlyCollisionsLeft

(* A time step changes contents only.                                      *)
LEMMA AdvancePointers ==
  ASSUME PointerInvariant, IdInvariant, Advance PROVE PointerInvariant'
  <1> DEFINE n == Len(registry)
  <1>1. /\ phase = "advance" /\ UNCHANGED <<phase, registry, next_id, file, name, at>>
        /\ heap' = [a \in DOMAIN heap |->
                      IF heap[a].class \in {"vpic", "species"}
                      THEN [heap[a] EXCEPT !.val = heap[Vpic].val + 1] ELSE heap[a]]
    BY DEF Advance
  <1>2. /\ n \in Nat /\ DOMAIN registry = 1 .. n /\ DOMAIN Memory = 1 .. n
        /\ \A i \in 1 .. n :
             /\ Memory[i].id = registry[i].obj /\ Memory[i].obj = ObjectAt(i)
             /\ registry[i].obj \in DOMAIN heap
        /\ Sound(Memory, n) /\ Vpic = registry[2].obj /\ 2 \in 1 .. n
        /\ Vpic \in DOMAIN heap /\ HeapOk(heap)
        /\ Injective(registry) /\ Registered \subseteq DOMAIN heap
    BY <1>1, LiveFacts
  <1>3. ASSUME NEW a \in DOMAIN heap
        PROVE  /\ IsObject(heap'[a]) /\ heap'[a].class = heap[a].class
               /\ heap'[a].ptr = heap[a].ptr
    <2>1. /\ heap[a] = [class |-> heap[a].class, val |-> heap[a].val,
                        ptr |-> heap[a].ptr]
          /\ heap[a].class \in Class
          /\ heap[a].ptr = [m \in Members(heap[a].class) |-> heap[a].ptr[m]]
      BY <1>2 DEF HeapOk, Fits, IsObject
    <2>2. PICK x : heap'[a] = [class |-> heap[a].class, val |-> x,
                               ptr |-> heap[a].ptr]
      <3>1. CASE heap[a].class \in {"vpic", "species"}
        <4>1. heap'[a] = [heap[a] EXCEPT !.val = heap[Vpic].val + 1]
          BY <1>1, <3>1
        <4>2. heap'[a] = [class |-> heap[a].class, val |-> heap[Vpic].val + 1,
                          ptr |-> heap[a].ptr]
          BY <2>1, <4>1
        <4> QED BY <4>2
      <3>2. CASE heap[a].class \notin {"vpic", "species"}
        <4>1. heap'[a] = heap[a] BY <1>1, <3>2
        <4> QED BY <2>1, <4>1
      <3> QED BY <3>1, <3>2
    <2> QED BY <2>1, <2>2 DEF IsObject
  <1>4. DOMAIN heap' = DOMAIN heap /\ heap' = [a \in DOMAIN heap' |-> heap'[a]]
    BY <1>1
  <1>5. HeapOk(heap') BY <1>2, <1>3, <1>4 DEF HeapOk, Fits
  <1>6. Registered' = Registered BY <1>1 DEF Registered
  <1>7. HeapType' BY <1>1, <1>2, <1>4, <1>5, <1>6 DEF HeapType
  <1>8. /\ DOMAIN Memory' = 1 .. n
        /\ \A i \in 1 .. n : /\ Memory'[i].id = registry[i].obj
                             /\ Memory'[i].obj = heap'[registry[i].obj]
    BY <1>1, <1>2 DEF Memory, Node
  <1>9. Sound(Memory', n)
    <2>1. Typed(Memory')
      BY <1>2, <1>4, <1>5, <1>8 DEF Typed, HeapOk, Fits
    <2>2. \A i \in 1 .. n : /\ Memory'[i].id = Memory[i].id
                            /\ Memory'[i].obj.class = Memory[i].obj.class
                            /\ Memory'[i].obj.ptr = Memory[i].obj.ptr
      BY <1>2, <1>3, <1>8 DEF ObjectAt
    <2> QED BY <1>2, <1>8, <2>1, <2>2, SameSound
  <1>10. Vpic' = registry[2].obj
    <2>1. Simulation \in DOMAIN heap BY <1>2, Addresses DEF HeapOk
    <2> QED BY <1>2, <1>3, <2>1 DEF Vpic
  <1>11. LiveSound' BY <1>1, <1>6, <1>9, <1>10 DEF LiveSound, PointerInvariant
  <1>12. IdsPositive' /\ FilesSound'
    BY <1>1 DEF PointerInvariant, IdsPositive, FilesSound
  <1>13. AllRegistered'
    BY <1>1, <1>4, <1>6 DEF PointerInvariant, AllRegistered
  <1> QED
    BY <1>1, <1>7, <1>11, <1>12, <1>13
    DEF PointerInvariant, Phases, Writing,
        Restoring, Reanimating, Deleting, OnlyCollisionsLeft
---------------------------------------------------------------------------
(* The first index, and the id, of an object in a list.                    *)
IndexIn(list, o) ==
  LET at_o == {i \in DOMAIN list : list[i].obj = o}
  IN IF at_o = {} THEN 0 ELSE CHOOSE i \in at_o : \A j \in at_o : i <= j

LEMMA Found ==
  ASSUME NEW list, IsList(list), Injective(list), NEW k \in DOMAIN list
  PROVE  IndexIn(list, list[k].obj) = k
  <1> DEFINE o == list[k].obj
             at_o == {i \in DOMAIN list : list[i].obj = o}
  <1>1. at_o = {k} BY DEF Injective
  <1>2. k <= k BY ListDomain
  <1>3. (CHOOSE i \in {k} : \A j \in {k} : i <= j) = k BY <1>2
  <1>4. IndexIn(list, o) = IF at_o = {} THEN 0
                           ELSE CHOOSE i \in at_o : \A j \in at_o : i <= j
    BY DEF IndexIn
  <1> HIDE DEF at_o
  <1> QED BY <1>1, <1>3, <1>4

LEMMA NotFound ==
  ASSUME NEW list, NEW o, \A i \in DOMAIN list : list[i].obj # o
  PROVE  IndexIn(list, o) = 0
  BY DEF IndexIn

(* A registered object has its id, which is not 0, another object has 0.   *)
LEMMA ObjectIds ==
  ASSUME PointerInvariant, IdInvariant
  PROVE  /\ \A k \in DOMAIN registry : /\ IndexOf(registry[k].obj) = k
                                       /\ object_id(registry[k].obj) = registry[k].id
                                       /\ registry[k].id # 0 /\ k # 0
         /\ \A o : o \notin Registered => IndexOf(o) = 0 /\ object_id(o) = 0
         /\ 0 \notin Registered
  <1>1. /\ IsList(registry) /\ Injective(registry)
        /\ \A k \in DOMAIN registry : registry[k].id >= 1
    BY DEF PointerInvariant, IdInvariant, RegistryType, HeapType, IdsPositive
  <1>2. \A o : IndexOf(o) = IndexIn(registry, o) BY DEF IndexOf, IndexIn
  <1>3. \A k \in DOMAIN registry : k # 0 /\ registry[k].id # 0
    BY <1>1, ListDomain DEF IsList
  <1>4. \A k \in DOMAIN registry : IndexOf(registry[k].obj) = k
    BY <1>1, <1>2, Found
  <1>5. \A o : o \notin Registered => IndexOf(o) = 0
    BY <1>2, NotFound DEF Registered
  <1>6. 0 \notin Registered
    BY Addresses DEF PointerInvariant, HeapType, HeapOk
  <1> QED BY <1>3, <1>4, <1>5, <1>6 DEF object_id

(* An address and its id are the same object's.                            *)
LEMMA SameId ==
  ASSUME PointerInvariant, IdInvariant, NEW p, p = 0 \/ p \in Registered
  PROVE  Same(registry, p, object_id(p))
  <1>1. CASE p = 0 BY <1>1, ObjectIds DEF Same
  <1>2. CASE p \in Registered BY <1>2, ObjectIds DEF Same, Registered
  <1> QED BY <1>1, <1>2

(* Every pointer of a registered object leads to a registered object.      *)
LEMMA LivePointers ==
  ASSUME PointerInvariant, IdInvariant,
         phase \in {"initialize", "advance", "write", "finalize"},
         NEW i \in DOMAIN registry, NEW m \in DOMAIN ObjectAt(i).ptr,
         ObjectAt(i).ptr[m] # 0
  PROVE  /\ ObjectAt(i).ptr[m] \in Registered
         /\ heap[ObjectAt(i).ptr[m]].class \in Target(m)
  <1>1. /\ DOMAIN registry = 1 .. Len(registry) /\ DOMAIN Memory = 1 .. Len(registry)
        /\ \A k \in 1 .. Len(registry) :
              Memory[k].id = registry[k].obj /\ Memory[k].obj = ObjectAt(k)
        /\ Sound(Memory, Len(registry))
    BY LiveFacts
  <1>2. DOMAIN ObjectAt(i).ptr = Members(ObjectAt(i).class)
    <2>1. IsObject(ObjectAt(i)) BY <1>1 DEF Sound, Typed
    <2> QED BY <2>1 DEF IsObject
  <1>3. Refers(Memory, i, m, ObjectAt(i).ptr[m])
    <2>1. m \in Members(Memory[i].obj.class) /\ Memory[i].obj.ptr[m] # 0
      BY <1>1, <1>2
    <2>2. Refers(Memory, i, m, Memory[i].obj.ptr[m])
      BY <1>1, <2>1 DEF Sound, Backed
    <2> QED BY <1>1, <2>2
  <1>4. PICK j \in DOMAIN registry : /\ registry[j].obj = ObjectAt(i).ptr[m]
                                     /\ ObjectAt(j).class \in Target(m)
    BY <1>1, <1>3 DEF Refers
  <1> QED BY <1>4 DEF Registered, ObjectAt

(* The invariant implies the properties.                                   *)
LEMMA CurrentPointers ==
  ASSUME PointerInvariant, IdInvariant
  PROVE  PointersCurrent /\ NothingFails /\ OnlyCollisionsLeft
  <1>1. PointersCurrent
    <2> SUFFICES ASSUME Running, NEW i \in DOMAIN registry,
                        NEW m \in DOMAIN ObjectAt(i).ptr,
                        ObjectAt(i).ptr[m] # Null
                 PROVE  /\ object_id(ObjectAt(i).ptr[m]) # 0
                        /\ heap[ObjectAt(i).ptr[m]].class \in Target(m)
      BY DEF PointersCurrent, ObjectAt
    <2>1. phase \in {"initialize", "advance", "write", "finalize"} BY DEF Running
    <2>2. /\ ObjectAt(i).ptr[m] \in Registered
          /\ heap[ObjectAt(i).ptr[m]].class \in Target(m)
      BY <2>1, LivePointers DEF Null
    <2> QED BY <2>2, ObjectIds DEF Registered
  <1> QED BY <1>1 DEF PointerInvariant, NothingFails, Phases
---------------------------------------------------------------------------
(* A checkpoint that begins has nothing to agree with yet.                 *)
LEMMA BeginCheckptPointers ==
  ASSUME PointerInvariant, IdInvariant, NEW n \in Name, BeginCheckpt(n)
  PROVE  PointerInvariant'
  <1>1. /\ phase = "advance" /\ phase' = "write" /\ name' = n /\ at' = 1
        /\ UNCHANGED <<registry, next_id, heap>>
        /\ file' = [file EXCEPT ![n] = [NoFile EXCEPT !.next_id = next_id]]
    BY DEF BeginCheckpt
  <1>2. DOMAIN file = Name BY DEF IdInvariant, FileType
  <1>3. file'[n].nodes = <<>> /\ ~ file'[n].complete
    BY <1>1, <1>2 DEF NoFile
  <1>4. \A k \in Name : k # n => file'[k] = file[k] BY <1>1, <1>2
  <1>5. DOMAIN <<>> = {}
    <2>1. IsList(<<>>) /\ Len(<<>>) = 0 BY EmptyList
    <2> QED BY <2>1, ListDomain
  <1>6. IdsPositive'
    <2>1. \A k \in Name : \A i \in DOMAIN file'[k].nodes : file'[k].nodes[i].id >= 1
      BY <1>3, <1>4, <1>5 DEF PointerInvariant, IdsPositive
    <2> QED BY <1>1, <2>1 DEF PointerInvariant, IdsPositive
  <1>7. FilesSound' BY <1>3, <1>4 DEF PointerInvariant, FilesSound
  <1>8. Writing' BY <1>1, <1>3 DEF Writing
  <1>9. HeapType' BY <1>1 DEF PointerInvariant, HeapType, Registered
  <1>10. Memory' = Memory /\ Registered' = Registered /\ Vpic' = Vpic
    BY <1>1 DEF Memory, Registered, Vpic
  <1>11. LiveSound' /\ AllRegistered'
    BY <1>1, <1>10 DEF PointerInvariant, LiveSound, AllRegistered
  <1> QED
    BY <1>1, <1>6, <1>7, <1>8, <1>9, <1>11
    DEF PointerInvariant, Phases, Restoring, Reanimating, Deleting,
        OnlyCollisionsLeft

(* What is written of an object is its copy with ids.                      *)
LEMMA WrittenCopy ==
  ASSUME PointerInvariant, IdInvariant, phase = "write", NEW i \in DOMAIN registry
  PROVE  /\ Copied(registry, ObjectAt(i), Written(ObjectAt(i)),
                   Members(ObjectAt(i).class))
         /\ ~ \E m \in DOMAIN ObjectAt(i).ptr :
                 ObjectAt(i).ptr[m] # Null /\ object_id(ObjectAt(i).ptr[m]) = 0
  <1> DEFINE o == ObjectAt(i)
             q == [m \in DOMAIN o.ptr |-> object_id(o.ptr[m])]
             w == [o EXCEPT !.ptr = q]
  <1>1. IsObject(o)
    <2>1. registry[i].obj \in DOMAIN heap BY LiveFacts
    <2> QED BY <2>1, LiveFacts DEF HeapOk, Fits, ObjectAt
  <1>2. \A m \in DOMAIN o.ptr : o.ptr[m] # 0 => o.ptr[m] \in Registered
    BY LivePointers
  <1> HIDE DEF o
  <1>3. /\ o = [class |-> o.class, val |-> o.val, ptr |-> o.ptr]
        /\ o.class \in Class /\ DOMAIN o.ptr = Members(o.class)
    BY <1>1 DEF IsObject
  <1>4. \A m \in Members(o.class) : q[m] = object_id(o.ptr[m]) BY <1>3
  <1>5. q = [m \in Members(o.class) |-> q[m]] BY <1>3
  <1> HIDE DEF q
  <1>6. w = [class |-> o.class, val |-> o.val, ptr |-> q] BY <1>3
  <1> HIDE DEF w
  <1>7. w.class = o.class /\ w.val = o.val /\ w.ptr = q BY <1>6
  <1>8. IsObject(w) BY <1>3, <1>5, <1>6, <1>7 DEF IsObject
  <1>9. \A m \in Members(o.class) : Same(registry, o.ptr[m], w.ptr[m])
    BY <1>2, <1>3, <1>4, <1>7, SameId
  <1>10. Copied(registry, o, w, Members(o.class))
    BY <1>7, <1>8, <1>9 DEF Copied
  <1>11. ~ \E m \in DOMAIN o.ptr : o.ptr[m] # Null /\ object_id(o.ptr[m]) = 0
    BY <1>2, ObjectIds, Addresses DEF Registered
  <1>12. Written(o) = w BY DEF Written, w, q
  <1> QED BY <1>10, <1>11, <1>12 DEF o

(* The next object is written.                                             *)
LEMMA CheckptObjectPointers ==
  ASSUME PointerInvariant, IdInvariant, CheckptObject PROVE PointerInvariant'
  <1> DEFINE e == [id |-> registry[at].id, obj |-> Written(ObjectAt(at))]
             s == file[name].nodes
  <1>1. phase = "write" /\ at <= Len(registry) BY DEF CheckptObject
  <1>2. /\ DOMAIN registry = 1 .. Len(registry) /\ Len(registry) \in Nat
        /\ at \in DOMAIN registry /\ at \in Nat
    <2>1. IsList(registry) /\ at \in Nat \ {0} BY DEF IdInvariant, RegistryType
    <2> QED BY <1>1, <2>1, ListDomain
  <1>3. /\ file' = [file EXCEPT ![name].nodes = Append(@, e)]
        /\ at' = at + 1 /\ UNCHANGED <<phase, registry, next_id, heap, name>>
    BY <1>1, <1>2, WrittenCopy DEF CheckptObject, ObjectAt
  <1>4. /\ DOMAIN file = Name /\ name \in Name /\ IsList(s) /\ Len(s) = at - 1
        /\ file[name] = [nodes |-> s, next_id |-> file[name].next_id,
                         complete |-> file[name].complete]
    BY <1>1 DEF IdInvariant, FileType, Half
  <1>5. e.id >= 1 /\ e.id \in Nat /\ e.obj = Written(ObjectAt(at))
    BY <1>2 DEF PointerInvariant, IdsPositive, IdInvariant, RegistryType, IsList
  <1> HIDE DEF e
  <1>6. /\ file'[name].nodes = Append(s, e)
        /\ file'[name].complete = file[name].complete
        /\ \A k \in Name : k # name => file'[k] = file[k]
    BY <1>3, <1>4
  <1> HIDE DEF s
  <1>7. /\ DOMAIN Append(s, e) = 1 .. at /\ DOMAIN s = 1 .. at - 1
        /\ \A i \in 1 .. at - 1 : Append(s, e)[i] = s[i]
        /\ Append(s, e)[at] = e
    <2>1. /\ DOMAIN Append(s, e) = 1 .. Len(s) + 1 /\ DOMAIN s = 1 .. Len(s)
          /\ \A i \in 1 .. Len(s) : Append(s, e)[i] = s[i]
          /\ Append(s, e)[Len(s) + 1] = e
      BY <1>4, <1>5, AppendList
    <2>2. Len(s) + 1 = at BY <1>2, <1>4
    <2> QED BY <1>4, <2>1, <2>2
  <1>8. \A i \in 1 .. at : i \in 1 .. at - 1 \/ i = at BY <1>2
  <1>9. IdsPositive'
    <2>1. \A i \in DOMAIN file'[name].nodes : file'[name].nodes[i].id >= 1
      <3>1. \A i \in 1 .. at - 1 : s[i].id >= 1
        BY <1>4, <1>7 DEF PointerInvariant, IdsPositive, s
      <3> QED BY <1>5, <1>6, <1>7, <1>8, <3>1
    <2>2. \A k \in Name : k # name =>
            \A i \in DOMAIN file'[k].nodes : file'[k].nodes[i].id >= 1
      BY <1>6 DEF PointerInvariant, IdsPositive
    <2>3. \A k \in Name : \A i \in DOMAIN file'[k].nodes : file'[k].nodes[i].id >= 1
      BY <2>1, <2>2
    <2> QED BY <1>3, <2>3 DEF PointerInvariant, IdsPositive
  <1>10. ~ file[name].complete BY <1>1 DEF PointerInvariant, Writing
  <1>11. FilesSound' BY <1>6, <1>10 DEF PointerInvariant, FilesSound
  <1>12. Writing'
    <2> SUFFICES ASSUME NEW i \in 1 .. at
                 PROVE  Copied(registry, ObjectAt(i), file'[name].nodes[i].obj,
                               Members(ObjectAt(i).class))
      <3>1. at' - 1 = at /\ ObjectAt(1)' = ObjectAt(1) BY <1>2, <1>3 DEF ObjectAt
      <3> QED BY <1>3, <1>6, <1>10, <3>1 DEF Writing, ObjectAt, Saved
    <2>1. CASE i = at
      BY <1>1, <1>2, <1>5, <1>6, <1>7, <2>1, WrittenCopy
    <2>2. CASE i \in 1 .. at - 1
      BY <1>1, <1>6, <1>7, <2>2 DEF PointerInvariant, Writing, Saved, s
    <2> QED BY <1>8, <2>1, <2>2
  <1>13. HeapType' BY <1>3 DEF PointerInvariant, HeapType, Registered
  <1>14. Memory' = Memory /\ Registered' = Registered /\ Vpic' = Vpic
    BY <1>3 DEF Memory, Registered, Vpic
  <1>15. LiveSound' /\ AllRegistered'
    BY <1>3, <1>14 DEF PointerInvariant, LiveSound, AllRegistered
  <1> QED
    BY <1>1, <1>3, <1>9, <1>11, <1>12, <1>13, <1>15
    DEF PointerInvariant, Phases, Restoring, Reanimating, Deleting,
        OnlyCollisionsLeft

(* Increasing ids are distinct.                                            *)
LEMMA IncreasingDistinct ==
  ASSUME NEW s, IsList(s), NEW b, Increasing(s, b), \A i \in DOMAIN s : s[i].id >= 1
  PROVE  Distinct(s)
  <1>1. DOMAIN s = 1 .. Len(s) /\ Len(s) \in Nat BY ListDomain
  <1>2. \A i \in DOMAIN s : s[i].id \in Nat BY DEF IsList
  <1> QED BY <1>1, <1>2 DEF Increasing, Distinct

(* A file that is closed has the memory of the process.                    *)
LEMMA EndCheckptPointers ==
  ASSUME PointerInvariant, IdInvariant, EndCheckpt PROVE PointerInvariant'
  <1> DEFINE s == file[name].nodes
             n == Len(registry)
  <1>1. /\ phase = "write" /\ at > n /\ phase' = "advance"
        /\ file' = [file EXCEPT ![name].complete = TRUE]
        /\ UNCHANGED <<registry, next_id, heap, name, at>>
    BY DEF EndCheckpt
  <1>2. /\ n \in Nat /\ DOMAIN registry = 1 .. n /\ DOMAIN Memory = 1 .. n
        /\ \A i \in 1 .. n :
             Memory[i].id = registry[i].obj /\ Memory[i].obj = ObjectAt(i)
        /\ Sound(Memory, n)
    BY <1>1, LiveFacts
  <1>3. /\ DOMAIN file = Name /\ name \in Name /\ IsList(s)
        /\ Len(s) = at - 1 /\ at - 1 <= n /\ at \in Nat
        /\ \A i \in 1 .. at - 1 : s[i].id = registry[i].id
    BY <1>1 DEF IdInvariant, FileType, RegistryType, Half, SameIds
  <1>4. at - 1 = n /\ Len(s) = n /\ DOMAIN s = 1 .. n
    BY <1>1, <1>2, <1>3, ListDomain
  <1>5. \A k \in Name : /\ file'[k].nodes = file[k].nodes
                        /\ k # name => file'[k] = file[k]
    <2>1. file[name] = [nodes |-> s, next_id |-> file[name].next_id,
                        complete |-> file[name].complete]
      BY <1>3 DEF IdInvariant, FileType
    <2> QED BY <1>1, <1>3, <2>1
  <1>6. \A i \in 1 .. n :
          Copied(registry, ObjectAt(i), s[i].obj, Members(ObjectAt(i).class))
    BY <1>1, <1>4 DEF PointerInvariant, Writing, Saved
  <1>7. Distinct(s)
    BY <1>3, IncreasingDistinct
    DEF IdInvariant, IdsUnique, PointerInvariant, IdsPositive
  <1> HIDE DEF s
  <1>8. Typed(s) BY <1>4, <1>6 DEF Typed, Copied
  <1>9. \A p, q : Same(registry, p, q) => Pair(Memory, s, p, q)
    <2>1. \A j \in 1 .. n : Memory[j].id = registry[j].obj /\ s[j].id = registry[j].id
      BY <1>2, <1>3, <1>4
    <2> QED BY <1>2, <2>1 DEF Same, Pair
  <1>10. \A i \in 1 .. n :
           /\ s[i].obj.class = Memory[i].obj.class
           /\ \A m \in Members(Memory[i].obj.class) :
                Pair(Memory, s, Memory[i].obj.ptr[m], s[i].obj.ptr[m])
    BY <1>2, <1>6, <1>9 DEF Copied
  <1>11. Sound(s, n) BY <1>2, <1>4, <1>7, <1>8, <1>10, Transfer
  <1>12. HasMain(s)
    <2>1. Simulation \in Registered BY <1>1 DEF PointerInvariant, LiveSound
    <2>2. PICK i \in 1 .. n : registry[i].obj = Simulation
      BY <1>2, <2>1 DEF Registered
    <2>3. ObjectAt(i).class = "simulation"
      BY <1>2, <2>1, <2>2 DEF PointerInvariant, HeapType, HeapOk, Fits, ObjectAt
    <2> QED BY <1>2, <1>4, <1>10, <2>2, <2>3 DEF HasMain
  <1>13. FilesSound'
    BY <1>1, <1>4, <1>5, <1>11, <1>12 DEF PointerInvariant, FilesSound, s
  <1>14. IdsPositive' BY <1>1, <1>5 DEF PointerInvariant, IdsPositive
  <1>15. HeapType' BY <1>1 DEF PointerInvariant, HeapType, Registered
  <1>16. Memory' = Memory /\ Registered' = Registered /\ Vpic' = Vpic
    BY <1>1 DEF Memory, Registered, Vpic
  <1>17. LiveSound' /\ AllRegistered'
    BY <1>1, <1>16 DEF PointerInvariant, LiveSound, AllRegistered
  <1> QED
    BY <1>1, <1>13, <1>14, <1>15, <1>17
    DEF PointerInvariant, Phases, Writing, Restoring, Reanimating, Deleting,
        OnlyCollisionsLeft
---------------------------------------------------------------------------
(* A process that has ended leaves its files.                              *)
LEMMA EmptiedPointers ==
  ASSUME PointerInvariant, IdInvariant, registry' = <<>>, next_id' >= 1,
         heap' = Globals, UNCHANGED file, phase' \in {"down", "restore"},
         phase' = "restore" => file[name'].complete
  PROVE  PointerInvariant'
  <1>1. DOMAIN registry' = {}
    <2>1. IsList(<<>>) /\ Len(<<>>) = 0 BY EmptyList
    <2> QED BY <2>1, ListDomain
  <1>2. Registered' = {} BY <1>1 DEF Registered
  <1>3. HeapType' BY <1>1, <1>2, GlobalsOk DEF HeapType, Injective
  <1>4. IdsPositive' BY <1>1 DEF PointerInvariant, IdsPositive
  <1>5. FilesSound' BY DEF PointerInvariant, FilesSound
  <1>6. AllRegistered' BY <1>2, GlobalsOk DEF AllRegistered
  <1>7. Restoring' BY <1>1 DEF Restoring
  <1> QED
    BY <1>3, <1>4, <1>5, <1>6, <1>7
    DEF PointerInvariant, Phases, LiveSound, Writing, Reanimating, Deleting,
        OnlyCollisionsLeft

LEMMA CrashPointers ==
  ASSUME PointerInvariant, IdInvariant, Crash PROVE PointerInvariant'
  BY EmptiedPointers DEF Crash

(* A complete file is sound and counts its ids from 1.                     *)
LEMMA FileFacts ==
  ASSUME PointerInvariant, IdInvariant, NEW n \in Name, file[n].complete
  PROVE  /\ Len(file[n].nodes) \in Nat
         /\ DOMAIN file[n].nodes = 1 .. Len(file[n].nodes)
         /\ Sound(file[n].nodes, Len(file[n].nodes)) /\ HasMain(file[n].nodes)
         /\ file[n].next_id \in Nat /\ file[n].next_id >= 1
         /\ \A i \in DOMAIN file[n].nodes :
              file[n].nodes[i].id \in Nat /\ file[n].nodes[i].id >= 1
  <1> DEFINE s == file[n].nodes
  <1>1. /\ IsList(s) /\ Sound(s, Len(s)) /\ HasMain(s)
        /\ file[n].next_id \in Nat /\ Increasing(s, file[n].next_id)
        /\ \A i \in DOMAIN s : s[i].id >= 1
    BY DEF IdInvariant, FileType, IdsUnique, PointerInvariant, FilesSound, IdsPositive
  <1>2. 1 \in DOMAIN s BY <1>1 DEF Sound, Rooted
  <1>3. s[1].id >= 1 /\ s[1].id < file[n].next_id /\ s[1].id \in Nat
    BY <1>1, <1>2 DEF IsList, Increasing
  <1>4. file[n].next_id >= 1 BY <1>1, <1>3
  <1> QED BY <1>1, <1>4, ListDomain DEF IsList

LEMMA BeginRestorePointers ==
  ASSUME PointerInvariant, IdInvariant, NEW n \in Name, BeginRestore(n)
  PROVE  PointerInvariant'
  <1>1. /\ phase = "down" /\ file[n].complete /\ phase' = "restore" /\ name' = n
        /\ registry' = <<>> /\ next_id' = file[n].next_id
        /\ UNCHANGED <<heap, file>>
    BY DEF BeginRestore, RestoredId
  <1>2. heap' = Globals BY <1>1 DEF PointerInvariant
  <1>3. next_id' >= 1 BY <1>1, FileFacts
  <1> QED BY <1>1, <1>2, <1>3, EmptiedPointers

(* The object with an id in a list with distinct ids.                      *)
LEMMA PtrFound ==
  ASSUME NEW list, IsList(list), NEW k \in DOMAIN list,
         \A i, j \in DOMAIN list : list[i].id = list[j].id => i = j
  PROVE  ObjectPtr(list, list[k].id) = list[k].obj
  <1> DEFINE id == list[k].id
             at_id == {i \in DOMAIN list : list[i].id = id}
  <1>1. at_id = {k} OBVIOUS
  <1>2. k <= k BY ListDomain
  <1>3. (CHOOSE i \in {k} : \A j \in {k} : i <= j) = k BY <1>2
  <1>4. ObjectPtr(list, id) =
          IF at_id = {} THEN Null
          ELSE list[CHOOSE i \in at_id : \A j \in at_id : i <= j].obj
    BY DEF ObjectPtr
  <1> HIDE DEF at_id
  <1> QED BY <1>1, <1>3, <1>4

LEMMA PtrNotFound ==
  ASSUME NEW list, NEW id, \A i \in DOMAIN list : list[i].id # id
  PROVE  ObjectPtr(list, id) = 0
  BY DEF ObjectPtr, Null

(* A pointer that is looked up is the address for the id.                  *)
LEMMA LookedUp ==
  ASSUME PointerInvariant, IdInvariant, NEW id,
         id # 0 => \E k \in DOMAIN registry : registry[k].id = id
  PROVE  /\ Same(registry, ObjectPtr(registry, id), id)
         /\ id # 0 => ObjectPtr(registry, id) # Null
  <1>1. IsList(registry) /\ Increasing(registry, next_id)
        /\ \A i \in DOMAIN registry : registry[i].id >= 1
    BY DEF IdInvariant, RegistryType, IdsUnique, PointerInvariant, IdsPositive
  <1>2. Distinct(registry) BY <1>1, IncreasingDistinct
  <1>3. CASE id = 0 BY <1>2, <1>3, PtrNotFound DEF Distinct, Same
  <1>4. CASE id # 0
    <2>1. PICK k \in DOMAIN registry : registry[k].id = id BY <1>4
    <2>2. ObjectPtr(registry, id) = registry[k].obj
      BY <1>1, <1>2, <2>1, PtrFound DEF Distinct
    <2>3. registry[k].obj # 0 BY ObjectIds DEF Registered
    <2> QED BY <2>1, <2>2, <2>3, Addresses DEF Same
  <1> QED BY <1>3, <1>4

(* What is done stays done when the registry grows.                        *)
LEMMA CopiedLonger ==
  ASSUME NEW list, NEW longer, DOMAIN list \subseteq DOMAIN longer,
         \A i \in DOMAIN list : longer[i] = list[i],
         NEW o, NEW t, NEW done, Copied(list, o, t, done)
  PROVE  Copied(longer, o, t, done)
  <1>1. \A p, q : Same(list, p, q) => Same(longer, p, q) BY DEF Same
  <1> QED BY <1>1 DEF Copied

(* The next object of a file finds everything that it looks up.            *)
LEMMA RestoredCopy ==
  ASSUME PointerInvariant, IdInvariant, phase = "restore",
         at <= Len(file[name].nodes)
  PROVE  /\ Copied(registry, Restored(Saved(at), registry), Saved(at),
                   Ptrs[Saved(at).class])
         /\ IsObject(Restored(Saved(at), registry))
         /\ Restored(Saved(at), registry).class = Saved(at).class
         /\ ~ \E m \in Ptrs[Restored(Saved(at), registry).class] :
                 /\ Saved(at).ptr[m] # 0
                 /\ Restored(Saved(at), registry).ptr[m] = Null
  <1> DEFINE s == file[name].nodes
             t == Saved(at)
             q == [m \in DOMAIN t.ptr |-> IF m \in Ptrs[t.class]
                     THEN ObjectPtr(registry, t.ptr[m]) ELSE t.ptr[m]]
             o == [t EXCEPT !.ptr = q]
  <1>1. /\ at \in DOMAIN s /\ Sound(s, Len(s)) /\ t = s[at].obj /\ at \in Nat
        /\ DOMAIN registry = 1 .. at - 1 /\ 1 .. at - 1 \subseteq DOMAIN s
        /\ \A i \in 1 .. at - 1 : registry[i].id = s[i].id
    <2>1. name \in Name /\ file[name].complete
      BY DEF IdInvariant, FileType, PointerInvariant, Restoring
    <2>2. at \in Nat \ {0} /\ IsList(registry) /\ Len(registry) = at - 1
          /\ SameIds(registry, s, at - 1)
      BY DEF IdInvariant, RegistryType, Half
    <2>3. Len(s) \in Nat /\ DOMAIN s = 1 .. Len(s) /\ Sound(s, Len(s))
      BY <2>1, FileFacts
    <2>4. DOMAIN registry = 1 .. at - 1 BY <2>2, ListDomain
    <2>5. at \in 1 .. Len(s) /\ 1 .. at - 1 \subseteq 1 .. Len(s) BY <2>2, <2>3
    <2> QED BY <2>2, <2>3, <2>4, <2>5 DEF SameIds, Saved
  <1>2. IsObject(t) BY <1>1 DEF Sound, Typed
  <1>3. ASSUME NEW m \in Ptrs[t.class]
        PROVE  /\ Same(registry, ObjectPtr(registry, t.ptr[m]), t.ptr[m])
               /\ t.ptr[m] # 0 => ObjectPtr(registry, t.ptr[m]) # Null
    <2>1. ASSUME t.ptr[m] # 0
          PROVE  \E k \in DOMAIN registry : registry[k].id = t.ptr[m]
      <3>1. t.class \in Class /\ m \in Members(t.class)
        BY <1>2, Classes DEF IsObject
      <3>2. Refers(s, at, m, t.ptr[m])
        <4>1. m \in Members(s[at].obj.class) /\ s[at].obj.ptr[m] # 0
          BY <1>1, <2>1, <3>1
        <4>2. Backed(s) BY <1>1 DEF Sound
        <4> HIDE DEF s, t
        <4>3. Refers(s, at, m, s[at].obj.ptr[m]) BY <1>1, <4>1, <4>2 DEF Backed
        <4> QED BY <1>1, <4>3
      <3>3. PICK k \in DOMAIN s : s[k].id = t.ptr[m] /\ k < at
        BY <1>1, <3>2 DEF Refers
      <3>4. k \in 1 .. at - 1 BY <1>1, <3>3 DEF Sound
      <3> QED BY <1>1, <3>3, <3>4
    <2> HIDE DEF t
    <2> QED BY <2>1, LookedUp
  <1> HIDE DEF t
  <1>4. /\ t = [class |-> t.class, val |-> t.val, ptr |-> t.ptr]
        /\ t.class \in Class /\ DOMAIN t.ptr = Members(t.class)
        /\ Ptrs[t.class] \subseteq Members(t.class)
    BY <1>2, Classes DEF IsObject
  <1>5. /\ q = [m \in Members(t.class) |-> q[m]]
        /\ \A m \in Ptrs[t.class] : q[m] = ObjectPtr(registry, t.ptr[m])
        /\ \A m \in Members(t.class) : m \notin Ptrs[t.class] => q[m] = t.ptr[m]
    BY <1>4
  <1> HIDE DEF q
  <1>6. o = [class |-> t.class, val |-> t.val, ptr |-> q] BY <1>4
  <1> HIDE DEF o
  <1>7. o.class = t.class /\ o.val = t.val /\ o.ptr = q BY <1>6
  <1>8. IsObject(o) BY <1>4, <1>5, <1>6, <1>7 DEF IsObject
  <1>9. Copied(registry, o, t, Ptrs[t.class])
    BY <1>2, <1>3, <1>5, <1>7 DEF Copied
  <1>10. ~ \E m \in Ptrs[o.class] : t.ptr[m] # 0 /\ o.ptr[m] = Null
    BY <1>3, <1>5, <1>7
  <1>11. Restored(t, registry) = o BY DEF Restored, o, q
  <1> QED BY <1>7, <1>8, <1>9, <1>10, <1>11 DEF t

(* Where a restore function puts an object there is none yet.              *)
LEMMA PlaceFree ==
  ASSUME PointerInvariant, IdInvariant, phase = "restore",
         at <= Len(file[name].nodes), NEW o, IsObject(o), o.class = Saved(at).class,
         NEW a \in Place(o)
  PROVE  a \notin Registered /\ Fits(a, o) /\ a \in Static \cup Addr
  <1> DEFINE s == file[name].nodes
  <1>1. /\ at \in DOMAIN s /\ Rooted(s) /\ at \in Nat
        /\ DOMAIN registry = 1 .. at - 1 /\ 1 .. at - 1 \subseteq DOMAIN s
    <2>1. name \in Name /\ file[name].complete
      BY DEF IdInvariant, FileType, PointerInvariant, Restoring
    <2>2. at \in Nat \ {0} /\ IsList(registry) /\ Len(registry) = at - 1
      BY DEF IdInvariant, RegistryType, Half
    <2>3. Len(s) \in Nat /\ DOMAIN s = 1 .. Len(s) /\ Sound(s, Len(s))
      BY <2>1, FileFacts
    <2>4. DOMAIN registry = 1 .. at - 1 BY <2>2, ListDomain
    <2>5. at \in 1 .. Len(s) /\ 1 .. at - 1 \subseteq 1 .. Len(s) BY <2>2, <2>3
    <2> QED BY <2>2, <2>3, <2>4, <2>5 DEF Sound
  <1>2. \A i \in 1 .. at - 1 : /\ ObjectAt(i).class = s[i].obj.class
                               /\ Fits(registry[i].obj, ObjectAt(i))
    <2>1. \A i \in DOMAIN registry : ObjectAt(i).class = s[i].obj.class
      BY DEF PointerInvariant, Restoring, Copied, Saved
    <2>2. \A i \in DOMAIN registry : Fits(registry[i].obj, ObjectAt(i))
      BY DEF PointerInvariant, HeapType, HeapOk, Registered, ObjectAt
    <2> QED BY <1>1, <2>1, <2>2
  <1>3. o.class = s[at].obj.class BY DEF Saved
  <1> HIDE DEF s
  <1>4. CASE o.class = "world"
    <2>1. a = World BY <1>4 DEF Place
    <2>2. at = 1 BY <1>1, <1>3, <1>4 DEF Rooted
    <2>3. Registered = {} BY <1>1, <2>2 DEF Registered
    <2> QED BY <1>4, <2>1, <2>3, Addresses DEF Fits
  <1>5. CASE o.class = "simulation"
    <2>1. a = Simulation BY <1>5 DEF Place
    <2>2. ASSUME NEW i \in 1 .. at - 1, registry[i].obj = Simulation PROVE FALSE
      <3>1. s[i].obj.class = "simulation" BY <1>2, <2>2 DEF Fits
      <3>2. i = at BY <1>1, <1>3, <1>5, <3>1 DEF Rooted
      <3> QED BY <1>1, <3>2
    <2> QED BY <1>1, <1>5, <2>1, <2>2, Addresses DEF Fits, Registered
  <1>6. CASE o.class \notin {"world", "simulation"}
    <2>1. a \in Addr /\ a \notin DOMAIN heap BY <1>6 DEF Place, Free
    <2>2. Registered \subseteq DOMAIN heap BY DEF PointerInvariant, HeapType
    <2> QED BY <1>6, <2>1, <2>2, Addresses DEF Fits
  <1> QED BY <1>4, <1>5, <1>6

(* The next object is restored.                                            *)
LEMMA RestoreObjectPointers ==
  ASSUME PointerInvariant, IdInvariant, RestoreObject PROVE PointerInvariant'
  <1> DEFINE o == Restored(Saved(at), registry)
             id == file[name].nodes[at].id
  <1>1. phase = "restore" /\ at <= Len(file[name].nodes) BY DEF RestoreObject
  <1>2. /\ Copied(registry, o, Saved(at), Ptrs[Saved(at).class])
        /\ IsObject(o) /\ o.class = Saved(at).class
        /\ ~ \E m \in Ptrs[o.class] : Saved(at).ptr[m] # 0 /\ o.ptr[m] = Null
    BY <1>1, RestoredCopy
  <1>3. \E a \in Place(o) :
          /\ registry' = Append(registry, Node(id, a))
          /\ heap' = With(heap, a, o)
          /\ at' = at + 1
          /\ UNCHANGED <<phase, next_id, file, name, starts>>
    BY <1>2 DEF RestoreObject, Saved
  <1> HIDE DEF o
  <1>4. PICK a \in Place(o) :
          /\ registry' = Append(registry, Node(id, a))
          /\ heap' = With(heap, a, o)
          /\ at' = at + 1
          /\ UNCHANGED <<phase, next_id, file, name, starts>>
    BY <1>3
  <1>5. a \notin Registered /\ Fits(a, o) /\ a \in Static \cup Addr
    BY <1>1, <1>2, PlaceFree
  <1>6. /\ HeapOk(heap) /\ Registered \subseteq DOMAIN heap /\ Injective(registry)
        /\ IsList(registry) /\ Len(registry) = at - 1 /\ at \in Nat \ {0}
    BY <1>1 DEF PointerInvariant, HeapType, IdInvariant, RegistryType, Half
  <1>7. Placed(heap', heap, a, o) BY <1>4, <1>5, <1>6, WithOk
  <1>8. id \in Nat /\ id >= 1
    <2>1. name \in Name /\ file[name].complete
      BY <1>1 DEF IdInvariant, FileType, PointerInvariant, Restoring
    <2>2. at \in DOMAIN file[name].nodes BY <1>1, <1>6, <2>1, FileFacts
    <2> QED BY <2>1, <2>2, FileFacts
  <1> HIDE DEF id
  <1>9. /\ DOMAIN registry = 1 .. at - 1 /\ DOMAIN registry' = 1 .. at
        /\ \A i \in 1 .. at - 1 : registry'[i] = registry[i] /\ registry[i].obj # a
        /\ registry'[at].id = id /\ registry'[at].obj = a
        /\ Injective(registry') /\ Registered' = Registered \cup {a}
        /\ \A i \in 1 .. at : i \in 1 .. at - 1 \/ i = at
    <2>1. at - 1 + 1 = at BY <1>6
    <2> QED BY <1>4, <1>5, <1>6, <1>8, <2>1, AppendRegistry
  <1>10. HeapType' BY <1>6, <1>7, <1>9 DEF HeapType, Placed
  <1>11. IdsPositive'
    <2>1. \A i \in 1 .. at : registry'[i].id >= 1
      BY <1>8, <1>9 DEF PointerInvariant, IdsPositive
    <2> QED BY <1>4, <1>9, <2>1 DEF PointerInvariant, IdsPositive
  <1>12. FilesSound' BY <1>4 DEF PointerInvariant, FilesSound
  <1>13. AllRegistered'
    BY <1>1, <1>4, <1>7, <1>9 DEF PointerInvariant, AllRegistered, Placed
  <1>14. Restoring'
    <2>1. ASSUME NEW i \in 1 .. at
          PROVE  Copied(registry', heap'[registry'[i].obj], Saved(i),
                        Ptrs[heap'[registry'[i].obj].class])
      <3>1. DOMAIN registry \subseteq DOMAIN registry'
            /\ \A k \in DOMAIN registry : registry'[k] = registry[k]
        BY <1>6, <1>9
      <3>2. CASE i = at
        <4>1. heap'[registry'[i].obj] = o BY <1>7, <1>9, <3>2 DEF Placed
        <4>2. Copied(registry', o, Saved(at), Ptrs[Saved(at).class])
          BY <1>2, <3>1, CopiedLonger
        <4> QED BY <1>2, <3>2, <4>1, <4>2
      <3>3. CASE i \in 1 .. at - 1
        <4>1. /\ registry'[i].obj = registry[i].obj /\ registry[i].obj # a
              /\ registry[i].obj \in DOMAIN heap
          BY <1>6, <1>9, <3>3 DEF Registered
        <4>2. heap'[registry'[i].obj] = ObjectAt(i)
          BY <1>7, <4>1 DEF Placed, ObjectAt
        <4>3. Copied(registry, ObjectAt(i), Saved(i), Ptrs[ObjectAt(i).class])
          BY <1>1, <1>9, <3>3 DEF PointerInvariant, Restoring
        <4>4. Copied(registry', ObjectAt(i), Saved(i), Ptrs[ObjectAt(i).class])
          BY <3>1, <4>3, CopiedLonger
        <4> QED BY <4>2, <4>4
      <3> QED BY <1>9, <3>2, <3>3
    <2>2. \A i \in DOMAIN registry' :
            Copied(registry', ObjectAt(i)', Saved(i)', Ptrs[ObjectAt(i)'.class])
      BY <1>4, <1>9, <2>1 DEF ObjectAt, Saved
    <2>3. file'[name'].complete BY <1>1, <1>4 DEF PointerInvariant, Restoring
    <2> QED BY <1>1, <1>4, <2>2, <2>3 DEF Restoring
  <1> QED
    BY <1>1, <1>4, <1>10, <1>11, <1>12, <1>13, <1>14
    DEF PointerInvariant, Phases, LiveSound, Writing, Reanimating, Deleting,
        OnlyCollisionsLeft

(* When all objects are there, the heads of the lists are still ids.       *)
LEMMA EndRestorePointers ==
  ASSUME PointerInvariant, IdInvariant, EndRestore PROVE PointerInvariant'
  <1> DEFINE s == file[name].nodes
  <1>1. /\ phase = "restore" /\ at > Len(s) /\ phase' = "reanimate" /\ at' = 1
        /\ UNCHANGED <<registry, next_id, heap, file, name>>
    BY DEF EndRestore
  <1>2. /\ name \in Name /\ file[name].complete
    BY <1>1 DEF IdInvariant, FileType, PointerInvariant, Restoring
  <1>3. /\ at \in Nat /\ Len(registry) = at - 1 /\ at - 1 <= Len(s)
        /\ SameIds(registry, s, at - 1) /\ IsList(registry)
    BY <1>1 DEF IdInvariant, RegistryType, Half
  <1>4. Len(s) \in Nat BY <1>2, FileFacts
  <1>5. Len(registry) = Len(s) /\ SameIds(registry, s, Len(registry))
    BY <1>1, <1>3, <1>4
  <1>6. \A i \in DOMAIN registry : ~ (i < 1) BY <1>3, ListDomain
  <1>7. Reanimating'
    <2>1. \A i \in DOMAIN registry :
            Copied(registry, ObjectAt(i), Saved(i), Ptrs[ObjectAt(i).class])
      BY <1>1 DEF PointerInvariant, Restoring
    <2>2. ASSUME NEW i \in DOMAIN registry
          PROVE  ObjectAt(i)' = ObjectAt(i) /\ Saved(i)' = Saved(i)
      BY <1>1 DEF ObjectAt, Saved
    <2>3. \A i \in DOMAIN registry' :
            Copied(registry', ObjectAt(i)', Saved(i)',
                   IF i < at' THEN Members(ObjectAt(i)'.class)
                   ELSE Ptrs[ObjectAt(i)'.class])
      BY <1>1, <1>6, <2>1, <2>2
    <2>4. SameIds(registry', file'[name'].nodes, Len(registry'))
          /\ Len(registry') = Len(file'[name'].nodes)
      BY <1>1, <1>5
    <2> QED BY <2>3, <2>4 DEF Reanimating
  <1>8. HeapType' /\ IdsPositive' /\ FilesSound'
    BY <1>1 DEF PointerInvariant, HeapType, Registered, IdsPositive, FilesSound
  <1>9. Restoring' BY <1>1, <1>2 DEF Restoring
  <1>10. AllRegistered'
    BY <1>1 DEF PointerInvariant, AllRegistered, Registered
  <1> QED
    BY <1>1, <1>7, <1>8, <1>9, <1>10
    DEF PointerInvariant, Phases, LiveSound, Writing, Deleting, OnlyCollisionsLeft

(* What reanimation knows: the registry has the objects of the file.       *)
LEMMA ReanimateFacts ==
  ASSUME PointerInvariant, IdInvariant, phase = "reanimate"
  PROVE  /\ Len(registry) \in Nat /\ DOMAIN registry = 1 .. Len(registry)
         /\ DOMAIN file[name].nodes = 1 .. Len(registry)
         /\ Len(file[name].nodes) = Len(registry)
         /\ Sound(file[name].nodes, Len(registry)) /\ HasMain(file[name].nodes)
         /\ \A i \in 1 .. Len(registry) :
              /\ registry[i].id = file[name].nodes[i].id
              /\ registry[i].obj \in DOMAIN heap /\ Fits(registry[i].obj, ObjectAt(i))
              /\ Copied(registry, ObjectAt(i), Saved(i),
                        IF i < at THEN Members(ObjectAt(i).class)
                        ELSE Ptrs[ObjectAt(i).class])
  <1> DEFINE s == file[name].nodes
  <1>1. /\ name \in Name /\ file[name].complete
    BY DEF IdInvariant, FileType, PointerInvariant, Restoring
  <1>2. /\ IsList(registry) /\ Len(registry) = Len(s)
        /\ SameIds(registry, s, Len(registry))
        /\ \A i \in DOMAIN registry :
              Copied(registry, ObjectAt(i), Saved(i),
                     IF i < at THEN Members(ObjectAt(i).class)
                     ELSE Ptrs[ObjectAt(i).class])
    BY DEF IdInvariant, RegistryType, PointerInvariant, Reanimating
  <1>3. \A i \in DOMAIN registry :
          registry[i].obj \in DOMAIN heap /\ Fits(registry[i].obj, ObjectAt(i))
    BY DEF PointerInvariant, HeapType, HeapOk, Registered, ObjectAt
  <1>4. /\ Len(s) \in Nat /\ DOMAIN s = 1 .. Len(s)
        /\ Sound(s, Len(s)) /\ HasMain(s)
    BY <1>1, FileFacts
  <1> HIDE DEF s
  <1>5. DOMAIN registry = 1 .. Len(registry) BY <1>2, ListDomain
  <1> QED BY <1>2, <1>3, <1>4, <1>5 DEF SameIds, s

(* The object whose pointers reanimate looks up is then as it was saved.   *)
LEMMA ReanimatedCopy ==
  ASSUME PointerInvariant, IdInvariant, phase = "reanimate",
         at \in DOMAIN registry, NEW now,
         now = [m \in DOMAIN ObjectAt(at).ptr |->
                  IF m \in Reanimated(ObjectAt(at).class)
                  THEN ObjectPtr(registry, ObjectAt(at).ptr[m])
                  ELSE ObjectAt(at).ptr[m]]
  PROVE  /\ ~ \E m \in Reanimated(ObjectAt(at).class) :
                 ObjectAt(at).ptr[m] # 0 /\ now[m] = Null
         /\ \A o : o = [ObjectAt(at) EXCEPT !.ptr = now] =>
              /\ IsObject(o) /\ o.class = ObjectAt(at).class
              /\ Copied(registry, o, Saved(at), Members(o.class))
  <1> DEFINE s == file[name].nodes
             t == Saved(at)
             b == ObjectAt(at)
             c == b.class
  <1>1. /\ at \in DOMAIN s /\ Sound(s, Len(s)) /\ t = s[at].obj
        /\ DOMAIN registry = DOMAIN s
        /\ \A i \in DOMAIN s : registry[i].id = s[i].id
        /\ IsObject(b) /\ Copied(registry, b, t, Ptrs[c])
    <2>1. at \in 1 .. Len(registry) /\ ~ (at < at) BY ReanimateFacts
    <2> QED BY <2>1, ReanimateFacts DEF Saved, Fits
  <1>2. now = [m \in DOMAIN b.ptr |-> IF m \in Reanimated(c)
                 THEN ObjectPtr(registry, b.ptr[m]) ELSE b.ptr[m]]
    OBVIOUS
  <1>3. /\ c \in Class /\ Reanimated(c) = FPtrs[c] /\ FPtrs[c] \subseteq Members(c)
        /\ Members(c) = Ptrs[c] \cup FPtrs[c]
        /\ \A m \in FPtrs[c] : m \notin Ptrs[c]
    <2>1. c \in Class BY <1>1 DEF IsObject
    <2> HIDE DEF c
    <2> QED BY <2>1, Classes DEF Reanimated
  <1>4. /\ b = [class |-> b.class, val |-> b.val, ptr |-> b.ptr]
        /\ DOMAIN b.ptr = Members(c)
        /\ t.class = c /\ t.val = b.val /\ IsObject(t)
        /\ \A m \in Ptrs[c] : Same(registry, b.ptr[m], t.ptr[m])
        /\ \A m \in FPtrs[c] : b.ptr[m] = t.ptr[m]
    BY <1>1, <1>3 DEF IsObject, Copied
  <1>5. ASSUME NEW m \in FPtrs[c]
        PROVE  /\ Same(registry, ObjectPtr(registry, t.ptr[m]), t.ptr[m])
               /\ t.ptr[m] # 0 => ObjectPtr(registry, t.ptr[m]) # Null
    <2>1. ASSUME t.ptr[m] # 0
          PROVE  \E k \in DOMAIN registry : registry[k].id = t.ptr[m]
      <3>1. m \in Members(s[at].obj.class) /\ s[at].obj.ptr[m] # 0
        BY <1>1, <1>3, <1>4, <2>1
      <3>2. Backed(s) BY <1>1 DEF Sound
      <3> HIDE DEF s, t
      <3>3. Refers(s, at, m, s[at].obj.ptr[m]) BY <1>1, <3>1, <3>2 DEF Backed
      <3>4. PICK k \in DOMAIN s : s[k].id = t.ptr[m] BY <1>1, <3>3 DEF Refers
      <3> QED BY <1>1, <3>4
    <2> HIDE DEF t
    <2> QED BY <2>1, LookedUp
  <1> HIDE DEF t, b, c, s
  <1>6. /\ now = [m \in Members(c) |-> now[m]]
        /\ \A m \in FPtrs[c] : now[m] = ObjectPtr(registry, t.ptr[m])
        /\ \A m \in Ptrs[c] : now[m] = b.ptr[m]
    BY <1>2, <1>3, <1>4
  <1>7. ~ \E m \in Reanimated(c) : b.ptr[m] # 0 /\ now[m] = Null
    BY <1>3, <1>4, <1>5, <1>6
  <1>8. ASSUME NEW o, o = [b EXCEPT !.ptr = now]
        PROVE  /\ IsObject(o) /\ o.class = c
               /\ Copied(registry, o, t, Members(o.class))
    <2>1. o = [class |-> b.class, val |-> b.val, ptr |-> now] BY <1>4, <1>8
    <2>2. o.class = c /\ o.val = b.val /\ o.ptr = now BY <2>1 DEF c
    <2>3. IsObject(o) BY <1>3, <1>6, <2>1, <2>2 DEF IsObject, c
    <2>4. \A m \in Members(c) : Same(registry, o.ptr[m], t.ptr[m])
      BY <1>3, <1>4, <1>5, <1>6, <2>2
    <2> QED BY <1>4, <2>2, <2>3, <2>4 DEF Copied
  <1> QED BY <1>7, <1>8 DEF t, b, c

LEMMA ReanimateObjectPointers ==
  ASSUME PointerInvariant, IdInvariant, ReanimateObject PROVE PointerInvariant'
  <1> DEFINE a == registry[at].obj
             now == [m \in DOMAIN ObjectAt(at).ptr |->
                       IF m \in Reanimated(ObjectAt(at).class)
                       THEN ObjectPtr(registry, ObjectAt(at).ptr[m])
                       ELSE ObjectAt(at).ptr[m]]
             o == [ObjectAt(at) EXCEPT !.ptr = now]
  <1>1. phase = "reanimate" /\ at <= Len(registry) BY DEF ReanimateObject
  <1>2. /\ at \in 1 .. Len(registry) /\ at \in Nat
        /\ DOMAIN registry = 1 .. Len(registry) /\ Len(registry) \in Nat
        /\ a \in DOMAIN heap /\ HeapOk(heap) /\ Injective(registry)
        /\ \A i \in 1 .. Len(registry) : registry[i].obj \in DOMAIN heap
    <2>1. at \in Nat \ {0} BY DEF IdInvariant, RegistryType
    <2> QED BY <1>1, <2>1, ReanimateFacts DEF PointerInvariant, HeapType
  <1>3. /\ ~ \E m \in Reanimated(ObjectAt(at).class) :
                 ObjectAt(at).ptr[m] # 0 /\ now[m] = Null
        /\ IsObject(o) /\ o.class = ObjectAt(at).class
        /\ Copied(registry, o, Saved(at), Members(o.class))
    <2>1. at \in DOMAIN registry BY <1>2
    <2>2. now = [m \in DOMAIN ObjectAt(at).ptr |->
                   IF m \in Reanimated(ObjectAt(at).class)
                   THEN ObjectPtr(registry, ObjectAt(at).ptr[m])
                   ELSE ObjectAt(at).ptr[m]]
      OBVIOUS
    <2>3. o = [ObjectAt(at) EXCEPT !.ptr = now] OBVIOUS
    <2> HIDE DEF now, o
    <2> QED BY <1>1, <2>1, <2>2, <2>3, ReanimatedCopy
  <1>4. /\ heap' = [heap EXCEPT ![a].ptr = now]
        /\ at' = at + 1 /\ UNCHANGED <<phase, registry, next_id, file, name>>
    BY <1>3 DEF ReanimateObject, ObjectAt
  <1>5. heap' = [heap EXCEPT ![a] = o] BY <1>2, <1>4 DEF ObjectAt
  <1> HIDE DEF now, o
  <1>6. Placed(heap', heap, a, o)
    <2>1. o.class = heap[a].class BY <1>3 DEF ObjectAt
    <2> QED BY <1>2, <1>3, <1>5, <2>1, ChangedOk
  <1> HIDE DEF a
  <1>7. /\ HeapOk(heap') /\ DOMAIN heap' = DOMAIN heap /\ heap'[a] = o
        /\ \A b \in DOMAIN heap : b # a => heap'[b] = heap[b]
    BY <1>2, <1>6 DEF Placed
  <1>8. \A i \in 1 .. Len(registry) :
          heap'[registry[i].obj] = IF i = at THEN o ELSE ObjectAt(i)
    <2> SUFFICES ASSUME NEW i \in 1 .. Len(registry)
                 PROVE  heap'[registry[i].obj] = IF i = at THEN o ELSE ObjectAt(i)
      OBVIOUS
    <2>1. CASE i = at BY <1>7, <2>1 DEF a
    <2>2. CASE i # at
      <3>1. registry[i].obj # a BY <1>2, <2>2 DEF Injective, a
      <3> QED BY <1>2, <1>7, <2>2, <3>1 DEF ObjectAt
    <2> QED BY <2>1, <2>2
  <1>9. Reanimating'
    <2>1. ASSUME NEW i \in 1 .. Len(registry)
          PROVE  Copied(registry, heap'[registry[i].obj], Saved(i),
                        IF i < at + 1 THEN Members(heap'[registry[i].obj].class)
                        ELSE Ptrs[heap'[registry[i].obj].class])
      <3>1. CASE i = at
        <4>1. i < at + 1 /\ heap'[registry[i].obj] = o BY <1>2, <1>8, <3>1
        <4> QED BY <1>3, <3>1, <4>1
      <3>2. CASE i # at
        <4>1. heap'[registry[i].obj] = ObjectAt(i) BY <1>8, <3>2
        <4>2. i < at + 1 <=> i < at BY <1>2, <3>2
        <4>3. Copied(registry, ObjectAt(i), Saved(i),
                     IF i < at THEN Members(ObjectAt(i).class)
                     ELSE Ptrs[ObjectAt(i).class])
          BY <1>1, ReanimateFacts
        <4> QED BY <4>1, <4>2, <4>3
      <3> QED BY <3>1, <3>2
    <2>2. /\ Len(registry') = Len(file'[name'].nodes)
          /\ SameIds(registry', file'[name'].nodes, Len(registry'))
      BY <1>1, <1>4 DEF PointerInvariant, Reanimating
    <2>3. \A i \in DOMAIN registry' :
            Copied(registry', ObjectAt(i)', Saved(i)',
                   IF i < at' THEN Members(ObjectAt(i)'.class)
                   ELSE Ptrs[ObjectAt(i)'.class])
      BY <1>2, <1>4, <2>1 DEF ObjectAt, Saved
    <2> QED BY <2>2, <2>3 DEF Reanimating
  <1>10. Registered' = Registered BY <1>4 DEF Registered
  <1>11. HeapType' /\ AllRegistered'
    BY <1>2, <1>4, <1>7, <1>10 DEF PointerInvariant, HeapType, AllRegistered
  <1>12. IdsPositive' /\ FilesSound' /\ Restoring'
    BY <1>1, <1>4 DEF PointerInvariant, IdsPositive, FilesSound, Restoring
  <1> QED
    BY <1>1, <1>4, <1>9, <1>11, <1>12
    DEF PointerInvariant, Phases, LiveSound, Writing, Deleting, OnlyCollisionsLeft

(* After the last reanimate function the memory is as the file has it.     *)
LEMMA EndReanimatePointers ==
  ASSUME PointerInvariant, IdInvariant, EndReanimate PROVE PointerInvariant'
  <1> DEFINE s == file[name].nodes
             n == Len(registry)
  <1>1. /\ phase = "reanimate" /\ at > n /\ phase' = "advance"
        /\ UNCHANGED <<registry, next_id, heap, file, name, at>>
    BY DEF EndReanimate
  <1>2. /\ n \in Nat /\ DOMAIN registry = 1 .. n /\ DOMAIN s = 1 .. n
        /\ Sound(s, n) /\ HasMain(s) /\ at \in Nat
        /\ \A i \in 1 .. n : /\ registry[i].id = s[i].id
                             /\ registry[i].obj \in DOMAIN heap
                             /\ Fits(registry[i].obj, ObjectAt(i))
    BY <1>1, ReanimateFacts DEF IdInvariant, RegistryType
  <1>3. \A i \in 1 .. n :
          Copied(registry, ObjectAt(i), s[i].obj, Members(ObjectAt(i).class))
    <2>1. \A i \in 1 .. n : i < at BY <1>1, <1>2
    <2> QED BY <1>1, <2>1, ReanimateFacts DEF Saved
  <1>4. Typed(Memory) /\ Distinct(Memory) BY MemoryTyped DEF PointerInvariant
  <1>5. DOMAIN Memory = 1 .. n
        /\ \A i \in 1 .. n :
             Memory[i].id = registry[i].obj /\ Memory[i].obj = ObjectAt(i)
    BY <1>2, MemoryNodes DEF ObjectAt
  <1> HIDE DEF s
  <1>6. \A p, q : Same(registry, p, q) => Pair(s, Memory, q, p)
    BY <1>2, <1>5 DEF Same, Pair
  <1>7. \A i \in 1 .. n :
          /\ Memory[i].obj.class = s[i].obj.class
          /\ \A m \in Members(s[i].obj.class) :
               Pair(s, Memory, s[i].obj.ptr[m], Memory[i].obj.ptr[m])
    BY <1>3, <1>5, <1>6 DEF Copied
  <1>8. Sound(Memory, n) BY <1>2, <1>4, <1>5, <1>7, Transfer
  <1>9. Vpic = registry[2].obj /\ Simulation \in Registered
    <2>1. PICK i \in 1 .. n : s[i].obj.class = "simulation"
      BY <1>2 DEF HasMain
    <2>2. ObjectAt(i).class = "simulation" BY <1>5, <1>7, <2>1
    <2>3. registry[i].obj = Simulation BY <1>2, <2>2 DEF Fits
    <2>4. ObjectAt(i).ptr.simulation = Memory[2].id /\ 2 \in 1 .. n
      BY <1>5, <1>8, <2>2 DEF Sound, Rooted
    <2> QED BY <1>2, <1>5, <2>3, <2>4 DEF Vpic, ObjectAt, Registered
  <1>10. Memory' = Memory /\ Registered' = Registered /\ Vpic' = Vpic
    BY <1>1 DEF Memory, Registered, Vpic
  <1>11. LiveSound' BY <1>1, <1>8, <1>9, <1>10 DEF LiveSound
  <1>12. AllRegistered' BY <1>1, <1>10 DEF PointerInvariant, AllRegistered
  <1>13. HeapType' /\ IdsPositive' /\ FilesSound'
    BY <1>1, <1>10 DEF PointerInvariant, HeapType, IdsPositive, FilesSound
  <1> QED
    BY <1>1, <1>11, <1>12, <1>13
    DEF PointerInvariant, Phases, Writing, Restoring, Reanimating, Deleting,
        OnlyCollisionsLeft
---------------------------------------------------------------------------
(* A registered object is taken out, and the memory stays as it is but for *)
(* objects that are not registered.                                        *)
LEMMA Unregistered ==
  ASSUME PointerInvariant, IdInvariant, NEW k \in DOMAIN registry,
         NEW then, NEW memory, Unregister(registry[k].obj, then, memory),
         HeapOk(memory), DOMAIN memory = DOMAIN heap,
         \A a \in Registered : memory[a] = heap[a]
  PROVE  /\ phase' = then /\ heap' = memory /\ UNCHANGED <<next_id, file, name, at>>
         /\ Len(registry) \in Nat /\ DOMAIN registry = 1 .. Len(registry)
         /\ Len(registry') = Len(registry) - 1
         /\ DOMAIN registry' = 1 .. Len(registry) - 1
         /\ \A i \in 1 .. Len(registry) - 1 :
              /\ registry'[i] = registry[Shift(k, i)]
              /\ heap'[registry'[i].obj] = ObjectAt(Shift(k, i))
         /\ DOMAIN Memory = 1 .. Len(registry)
         /\ TakenOut(Memory', Memory, Len(registry), k)
         /\ Registered' = Registered \ {registry[k].obj}
         /\ HeapType' /\ IdsPositive' /\ FilesSound'
  <1> DEFINE n == Len(registry)
             o == registry[k].obj
  <1>1. /\ IndexOf(o) = k /\ k # 0 BY ObjectIds
  <1>2. /\ phase' = then /\ heap' = memory /\ UNCHANGED <<next_id, file, name, at>>
        /\ registry' = Without(registry, k)
    BY <1>1 DEF Unregister, unregister_object
  <1>3. /\ IsList(registry) /\ Increasing(registry, next_id) /\ HeapType
    BY DEF PointerInvariant, IdInvariant, RegistryType, IdsUnique
  <1>4. n \in Nat /\ DOMAIN registry = 1 .. n BY <1>3, ListDomain
  <1>5. DOMAIN registry' = 1 .. n - 1
        /\ \A i \in 1 .. n - 1 : registry'[i] = registry[Shift(k, i)]
    BY <1>2 DEF Without, Shift
  <1>6. Len(registry') = n - 1
    <2>1. IsList(registry') BY <1>2, <1>3, WithoutIncreasing
    <2>2. Len(registry') \in Nat /\ DOMAIN registry' = 1 .. Len(registry')
      BY <2>1, ListDomain
    <2>3. 1 .. Len(registry') = 1 .. n - 1 BY <1>5, <2>2
    <2>4. n - 1 \in Nat BY <1>4
    <2> HIDE DEF n
    <2>5. ASSUME Len(registry') < n - 1 PROVE FALSE
      <3>1. n - 1 \in 1 .. n - 1 BY <2>2, <2>4, <2>5
      <3> QED BY <2>2, <2>3, <2>5, <3>1
    <2>6. ASSUME n - 1 < Len(registry') PROVE FALSE
      <3>1. Len(registry') \in 1 .. Len(registry') BY <2>2, <2>4, <2>6
      <3> QED BY <2>3, <2>4, <2>6, <3>1
    <2> QED BY <2>2, <2>4, <2>5, <2>6
  <1>7. /\ \A i \in 1 .. n - 1 : Shift(k, i) \in 1 .. n /\ Shift(k, i) # k
        /\ \A i, j \in 1 .. n - 1 : Shift(k, i) = Shift(k, j) => i = j
        /\ \A j \in 1 .. n : j # k => \E i \in 1 .. n - 1 : j = Shift(k, i)
    BY <1>4, Shifts
  <1>8. Registered' = Registered \ {o}
    <2>1. ASSUME NEW x \in Registered' PROVE x \in Registered /\ x # o
      <3>1. PICK i \in 1 .. n - 1 : x = registry[Shift(k, i)].obj
        BY <1>5, <2>1 DEF Registered
      <3>2. Shift(k, i) \in DOMAIN registry /\ Shift(k, i) # k BY <1>4, <1>7
      <3> QED BY <1>3, <3>1, <3>2 DEF Registered, HeapType, Injective
    <2>2. ASSUME NEW x \in Registered, x # o PROVE x \in Registered'
      <3>1. PICK j \in DOMAIN registry : x = registry[j].obj BY <2>2 DEF Registered
      <3>2. PICK i \in 1 .. n - 1 : j = Shift(k, i) BY <1>4, <1>7, <2>2, <3>1
      <3> QED BY <1>5, <3>1, <3>2 DEF Registered
    <2> QED BY <2>1, <2>2
  <1>9. Injective(registry')
    <2> SUFFICES ASSUME NEW i \in 1 .. n - 1, NEW j \in 1 .. n - 1,
                        registry'[i].obj = registry'[j].obj
                 PROVE  i = j
      BY <1>5 DEF Injective
    <2>1. Shift(k, i) \in DOMAIN registry /\ Shift(k, j) \in DOMAIN registry
      BY <1>4, <1>7
    <2>2. Shift(k, i) = Shift(k, j)
      BY <1>3, <1>5, <2>1 DEF HeapType, Injective
    <2> QED BY <1>7, <2>2
  <1>10. HeapType' BY <1>2, <1>3, <1>8, <1>9 DEF HeapType
  <1>11. \A i \in 1 .. n - 1 : heap'[registry'[i].obj] = ObjectAt(Shift(k, i))
    BY <1>2, <1>4, <1>5, <1>7 DEF Registered, ObjectAt
  <1>12. TakenOut(Memory', Memory, n, k)
    <2>1. \A i \in 1 .. n - 1 :
            Memory'[i] = Node(registry[Shift(k, i)].obj, ObjectAt(Shift(k, i)))
      BY <1>5, <1>11 DEF Memory
    <2>2. \A j \in 1 .. n : Memory[j] = Node(registry[j].obj, ObjectAt(j))
      BY <1>4 DEF Memory, ObjectAt
    <2>3. DOMAIN Memory' = 1 .. n - 1 BY <1>5 DEF Memory
    <2> QED BY <1>7, <2>1, <2>2, <2>3 DEF TakenOut
  <1>13. IdsPositive'
    BY <1>2, <1>4, <1>5, <1>7 DEF PointerInvariant, IdsPositive
  <1>14. FilesSound' BY <1>2 DEF PointerInvariant, FilesSound
  <1>15. DOMAIN Memory = 1 .. n BY <1>4, MemoryNodes
  <1> QED
    BY <1>2, <1>4, <1>5, <1>6, <1>8, <1>10, <1>11, <1>12, <1>13, <1>14, <1>15

(* Main takes its pointer out of the registry.                             *)
LEMMA UnregisterMainPointers ==
  ASSUME PointerInvariant, IdInvariant, UnregisterMain PROVE PointerInvariant'
  <1> DEFINE n == Len(registry)
  <1>1. phase = "advance" /\ Unregister(Simulation, "finalize", heap)
    BY DEF UnregisterMain
  <1>2. PICK k \in DOMAIN registry : registry[k].obj = Simulation
    BY <1>1 DEF PointerInvariant, LiveSound, Registered
  <1>3. /\ n \in Nat /\ DOMAIN registry = 1 .. n
        /\ \A i \in 1 .. n :
             /\ Memory[i].obj = ObjectAt(i) /\ registry[i].obj \in DOMAIN heap
        /\ 1 \in 1 .. n /\ 2 \in 1 .. n /\ Sound(Memory, n)
        /\ Vpic = registry[2].obj /\ HeapOk(heap)
    BY <1>1, LiveFacts
  <1>4. Memory[k].obj.class = "simulation"
    BY <1>2, <1>3 DEF HeapOk, Fits, ObjectAt
  <1>5. k # 1 /\ k # 2 /\ k \in 1 .. n BY <1>2, <1>3, <1>4 DEF Sound, Rooted
  <1>6. /\ phase' = "finalize" /\ UNCHANGED <<heap, next_id, file, name, at>>
        /\ Len(registry') = n - 1
        /\ \A i \in 1 .. n - 1 : registry'[i] = registry[Shift(k, i)]
        /\ TakenOut(Memory', Memory, n, k)
        /\ Registered' = Registered \ {Simulation}
        /\ HeapType' /\ IdsPositive' /\ FilesSound'
    <2>1. Unregister(registry[k].obj, "finalize", heap) BY <1>1, <1>2
    <2> QED BY <1>2, <1>3, <2>1, Unregistered
  <1>7. Sound(Memory', n - 1) BY <1>3, <1>4, <1>5, <1>6, MainTakenOut
  <1>8. Vpic' = registry'[2].obj
    <2>1. 2 \in 1 .. n - 1 /\ Shift(k, 2) = 2 BY <1>3, <1>5 DEF Shift
    <2> QED BY <1>3, <1>6, <2>1 DEF Vpic
  <1>9. LiveSound' BY <1>6, <1>7, <1>8 DEF LiveSound
  <1> QED
    BY <1>6, <1>9
    DEF PointerInvariant, Phases, AllRegistered, Writing, Restoring,
        Reanimating, Deleting, OnlyCollisionsLeft

(* The destructor of the simulation takes it out of the registry.          *)
LEMMA DeleteSimulationPointers ==
  ASSUME PointerInvariant, IdInvariant, DeleteSimulation PROVE PointerInvariant'
  <1> DEFINE n == Len(registry)
  <1>1. phase = "finalize" /\ Unregister(Vpic, "delete", heap)
    BY DEF DeleteSimulation
  <1>2. /\ n \in Nat /\ DOMAIN registry = 1 .. n
        /\ \A i \in 1 .. n :
             /\ Memory[i].obj = ObjectAt(i) /\ registry[i].obj \in DOMAIN heap
        /\ 1 \in 1 .. n /\ 2 \in 1 .. n /\ Sound(Memory, n)
        /\ Vpic = registry[2].obj /\ Vpic \in DOMAIN heap /\ HeapOk(heap)
        /\ heap[Vpic].class = "vpic" /\ registry[1].obj = World
    BY <1>1, LiveFacts
  <1>3. Simulation \notin Registered BY <1>1 DEF PointerInvariant, LiveSound
  <1>4. /\ phase' = "delete" /\ UNCHANGED <<heap, next_id, file, name, at>>
        /\ Len(registry') = n - 1 /\ DOMAIN registry' = 1 .. n - 1
        /\ \A i \in 1 .. n - 1 :
             /\ registry'[i] = registry[Shift(2, i)]
             /\ heap[registry'[i].obj] = ObjectAt(Shift(2, i))
        /\ TakenOut(Memory', Memory, n, 2) /\ DOMAIN Memory = 1 .. n
        /\ Registered' = Registered \ {Vpic}
        /\ HeapType' /\ IdsPositive' /\ FilesSound'
    <2>1. 2 \in DOMAIN registry /\ Unregister(registry[2].obj, "delete", heap)
      BY <1>1, <1>2
    <2>2. /\ phase' = "delete" /\ heap' = heap
          /\ UNCHANGED <<next_id, file, name, at>>
          /\ Len(registry') = n - 1 /\ DOMAIN registry' = 1 .. n - 1
          /\ \A i \in 1 .. n - 1 :
               /\ registry'[i] = registry[Shift(2, i)]
               /\ heap'[registry'[i].obj] = ObjectAt(Shift(2, i))
          /\ TakenOut(Memory', Memory, n, 2) /\ DOMAIN Memory = 1 .. n
          /\ Registered' = Registered \ {registry[2].obj}
          /\ HeapType' /\ IdsPositive' /\ FilesSound'
      BY <1>2, <2>1, Unregistered
    <2> QED BY <1>2, <2>2
  <1>5. /\ \A i \in 1 .. n - 1 : Shift(2, i) \in 1 .. n /\ Shift(2, i) # 2
        /\ \A i \in 1 .. n - 1 : i # 1 => Shift(2, i) # 1
        /\ Shift(2, 1) = 1 /\ 1 \in 1 .. n - 1
    BY <1>2 DEF Shift
  <1>6. \A i \in 1 .. n - 1 :
          i # 1 => heap[registry'[i].obj].class \in {"species", "collision"}
    <2> SUFFICES ASSUME NEW i \in 1 .. n - 1, i # 1
                 PROVE  heap[registry'[i].obj].class \in {"species", "collision"}
      OBVIOUS
    <2> DEFINE j == Shift(2, i)
    <2>1. j \in 1 .. n /\ j # 1 /\ j # 2 /\ heap[registry'[i].obj] = ObjectAt(j)
      BY <1>4, <1>5
    <2> HIDE DEF j
    <2>2. ObjectAt(j).class # "world" /\ ObjectAt(j).class # "vpic"
      BY <1>2, <2>1 DEF Sound, Rooted
    <2>3. ObjectAt(j).class # "simulation"
      BY <1>2, <1>3, <2>1 DEF HeapOk, Fits, ObjectAt, Registered
    <2>4. ObjectAt(j).class \in Class
      BY <1>2, <2>1 DEF HeapOk, Fits, IsObject, ObjectAt
    <2> QED BY <2>1, <2>2, <2>3, <2>4, Classes
  <1>7. Chained(Memory', n - 1, heap[Vpic].ptr.species_list)
    <2>1. Memory[2].obj = heap[Vpic] /\ ~ IsSpecies(Memory, 2)
      BY <1>2 DEF ObjectAt, IsSpecies
    <2>2. Chained(Memory, n, heap[Vpic].ptr.species_list)
      BY <1>2, <2>1 DEF Sound
    <2> QED BY <1>2, <1>4, <2>1, <2>2, OtherTakenOut
  <1>8. Vpic' = Vpic BY <1>4 DEF Vpic
  <1>9. Deleting'
    <2>1. 1 \in DOMAIN registry' /\ registry'[1].obj = World
      BY <1>2, <1>4, <1>5
    <2>2. Vpic' \in DOMAIN heap' \ Registered' /\ heap'[Vpic'].class = "vpic"
      BY <1>2, <1>4, <1>8
    <2>3. \A i \in DOMAIN registry' :
            i # 1 => ObjectAt(i)'.class \in {"species", "collision"}
      BY <1>4, <1>6 DEF ObjectAt
    <2>4. Chained(Memory', Len(registry'), heap'[Vpic'].ptr.species_list)
      BY <1>4, <1>7, <1>8
    <2> QED BY <2>1, <2>2, <2>3, <2>4 DEF Deleting
  <1> QED
    BY <1>4, <1>9
    DEF PointerInvariant, Phases, AllRegistered, LiveSound, Writing, Restoring,
        Reanimating, OnlyCollisionsLeft

(* What is left while the destructor deletes the species list.             *)
LEMMA DeleteFacts ==
  ASSUME PointerInvariant, IdInvariant, phase = "delete"
  PROVE  /\ Len(registry) \in Nat /\ DOMAIN registry = 1 .. Len(registry)
         /\ DOMAIN Memory = 1 .. Len(registry) /\ Distinct(Memory)
         /\ \A i \in 1 .. Len(registry) :
              /\ Memory[i].id = registry[i].obj /\ Memory[i].obj = ObjectAt(i)
              /\ registry[i].obj \in DOMAIN heap
              /\ i # 1 => ObjectAt(i).class \in {"species", "collision"}
         /\ 1 \in 1 .. Len(registry) /\ registry[1].obj = World
         /\ HeapOk(heap) /\ Registered \subseteq DOMAIN heap
         /\ Vpic \in DOMAIN heap /\ Vpic \notin Registered
         /\ heap[Vpic].class = "vpic" /\ Vpic # Simulation
         /\ ObjectAt(1).class = "world"
         /\ Chained(Memory, Len(registry), heap[Vpic].ptr.species_list)
  <1>1. IsList(registry) /\ HeapType /\ Deleting
    BY DEF PointerInvariant, IdInvariant, RegistryType
  <1>2. Len(registry) \in Nat /\ DOMAIN registry = 1 .. Len(registry)
    BY <1>1, ListDomain
  <1>3. Distinct(Memory) BY <1>1, MemoryTyped
  <1>4. \A i \in DOMAIN registry : registry[i].obj \in DOMAIN heap
    BY <1>1 DEF HeapType, Registered
  <1>5. ObjectAt(1).class = "world" /\ Vpic # Simulation
    BY <1>1, <1>4 DEF HeapType, HeapOk, Fits, Deleting, ObjectAt
  <1> QED
    BY <1>1, <1>2, <1>3, <1>4, <1>5, MemoryNodes
    DEF HeapType, Deleting, ObjectAt

(* The head of the species list is the last species of the registry.       *)
LEMMA HeadRegistered ==
  ASSUME PointerInvariant, IdInvariant, phase = "delete",
         heap[Vpic].ptr.species_list # 0
  PROVE  \E k \in DOMAIN registry : /\ registry[k].obj = heap[Vpic].ptr.species_list
                                    /\ IsSpecies(Memory, k)
  BY DeleteFacts DEF Chained, Latest

(* The destructor deletes the head of the species list.                    *)
LEMMA DeleteSpeciesPointers ==
  ASSUME PointerInvariant, IdInvariant, DeleteSpecies PROVE PointerInvariant'
  <1> DEFINE n == Len(registry)
             head == heap[Vpic].ptr.species_list
             v == SetPtr(heap[Vpic], "species_list", Rest(head))
             memory == [heap EXCEPT ![Vpic] = v]
  <1>1. /\ phase = "delete" /\ head # 0
        /\ Unregister(head, "delete",
                      [heap EXCEPT ![Vpic].ptr.species_list = Rest(head)])
    BY DEF DeleteSpecies, Null
  <1>2. /\ n \in Nat /\ DOMAIN registry = 1 .. n /\ DOMAIN Memory = 1 .. n
        /\ Distinct(Memory)
        /\ \A i \in 1 .. n :
             /\ Memory[i].id = registry[i].obj /\ Memory[i].obj = ObjectAt(i)
             /\ i # 1 => ObjectAt(i).class \in {"species", "collision"}
        /\ 1 \in 1 .. n /\ registry[1].obj = World
        /\ HeapOk(heap) /\ Registered \subseteq DOMAIN heap
        /\ Vpic \in DOMAIN heap /\ Vpic \notin Registered
        /\ heap[Vpic].class = "vpic" /\ Vpic # Simulation
        /\ ObjectAt(1).class = "world" /\ Chained(Memory, n, head)
    BY <1>1, DeleteFacts
  <1>3. PICK k \in 1 .. n : registry[k].obj = head /\ IsSpecies(Memory, k)
    BY <1>1, <1>2, HeadRegistered
  <1>4. /\ IsObject(v) /\ v.class = "vpic"
        /\ v.ptr["species_list"] = Rest(head)
    <2>1. IsObject(heap[Vpic]) BY <1>2 DEF HeapOk, Fits
    <2>2. "species_list" \in Members(heap[Vpic].class) BY <1>2, Classes
    <2>3. heap[Vpic].class = "vpic" BY <1>2
    <2>4. \A q : /\ IsObject(SetPtr(heap[Vpic], "species_list", q))
                 /\ SetPtr(heap[Vpic], "species_list", q).class = heap[Vpic].class
                 /\ SetPtr(heap[Vpic], "species_list", q).ptr["species_list"] = q
      BY <2>1, <2>2, SetPointer
    <2> HIDE DEF head
    <2> QED BY <2>3, <2>4
  <1>5. Placed(memory, heap, Vpic, v)
    <2>1. v.class = heap[Vpic].class BY <1>2, <1>4
    <2> HIDE DEF v
    <2> QED BY <1>2, <1>4, <2>1, ChangedOk
  <1>6. Unregister(registry[k].obj, "delete", memory)
    <2>1. [heap EXCEPT ![Vpic].ptr.species_list = Rest(head)] = memory
      BY <1>2 DEF SetPtr
    <2> QED BY <1>1, <1>3, <2>1
  <1> HIDE DEF memory, v
  <1>7. /\ HeapOk(memory) /\ DOMAIN memory = DOMAIN heap /\ memory[Vpic] = v
        /\ \A b \in DOMAIN heap : b # Vpic => memory[b] = heap[b]
    BY <1>2, <1>5 DEF Placed
  <1>8. /\ phase' = "delete" /\ heap' = memory /\ UNCHANGED <<next_id, file, name, at>>
        /\ Len(registry') = n - 1 /\ DOMAIN registry' = 1 .. n - 1
        /\ \A i \in 1 .. n - 1 :
             /\ registry'[i] = registry[Shift(k, i)]
             /\ heap'[registry'[i].obj] = ObjectAt(Shift(k, i))
        /\ TakenOut(Memory', Memory, n, k)
        /\ Registered' = Registered \ {head}
        /\ HeapType' /\ IdsPositive' /\ FilesSound'
    <2>1. k \in DOMAIN registry BY <1>2
    <2>2. \A a \in Registered : memory[a] = heap[a] BY <1>2, <1>7
    <2> QED BY <1>3, <1>6, <1>7, <2>1, <2>2, Unregistered
  <1>9. Rest(head) = Memory[k].obj.ptr.next
    BY <1>2, <1>3 DEF Rest, ObjectAt
  <1>10. Chained(Memory', n - 1, Rest(head))
    <2>1. Memory[k].id = head BY <1>2, <1>3
    <2> HIDE DEF head
    <2> QED BY <1>2, <1>3, <1>8, <1>9, <2>1, HeadTakenOut
  <1>11. k # 1 BY <1>2, <1>3 DEF IsSpecies
  <1>12. /\ Shift(k, 1) = 1 /\ 1 \in 1 .. n - 1
         /\ \A i \in 1 .. n - 1 : /\ Shift(k, i) \in 1 .. n
                                  /\ i # 1 => Shift(k, i) # 1
    BY <1>2, <1>11 DEF Shift
  <1>13. Vpic' = Vpic
    <2>1. Simulation \in DOMAIN heap BY <1>2, Addresses DEF HeapOk
    <2> QED BY <1>2, <1>7, <1>8, <2>1 DEF Vpic
  <1>14. Deleting'
    <2>1. 1 \in DOMAIN registry' /\ registry'[1].obj = World
      BY <1>2, <1>8, <1>12
    <2>2. Vpic' \in DOMAIN heap' \ Registered' /\ heap'[Vpic'].class = "vpic"
      BY <1>2, <1>4, <1>7, <1>8, <1>13
    <2>3. \A i \in DOMAIN registry' :
            i # 1 => ObjectAt(i)'.class \in {"species", "collision"}
      BY <1>2, <1>8, <1>12 DEF ObjectAt
    <2>4. Chained(Memory', Len(registry'), heap'[Vpic'].ptr.species_list)
      BY <1>4, <1>7, <1>8, <1>10, <1>13
    <2> QED BY <2>1, <2>2, <2>3, <2>4 DEF Deleting
  <1> QED
    BY <1>8, <1>14
    DEF PointerInvariant, Phases, AllRegistered, LiveSound, Writing, Restoring,
        Reanimating, OnlyCollisionsLeft

(* When the species list is empty no species is registered.                *)
LEMMA HaltPointers ==
  ASSUME PointerInvariant, IdInvariant, halt_services PROVE PointerInvariant'
  <1> DEFINE n == Len(registry)
  <1>1. /\ phase = "delete" /\ heap[Vpic].ptr.species_list = 0
        /\ Unregister(World, "halted", heap)
    BY DEF halt_services, Null
  <1>2. /\ n \in Nat /\ DOMAIN registry = 1 .. n /\ DOMAIN Memory = 1 .. n
        /\ Distinct(Memory)
        /\ \A i \in 1 .. n :
             /\ Memory[i].obj = ObjectAt(i)
             /\ i # 1 => ObjectAt(i).class \in {"species", "collision"}
        /\ 1 \in 1 .. n /\ registry[1].obj = World /\ HeapOk(heap)
        /\ Chained(Memory, n, 0)
    BY <1>1, DeleteFacts
  <1>3. \A i \in 1 .. n : ~ IsSpecies(Memory, i)
    <2>1. Latest(Memory, n + 1, 0) BY <1>2 DEF Chained
    <2>2. \A i \in DOMAIN Memory : IsSpecies(Memory, i) => i >= n + 1
      BY <2>1, <1>2 DEF Latest, Distinct
    <2> QED BY <1>2, <2>2
  <1>4. /\ phase' = "halted" /\ UNCHANGED heap
        /\ DOMAIN registry' = 1 .. n - 1
        /\ \A i \in 1 .. n - 1 : heap'[registry'[i].obj] = ObjectAt(Shift(1, i))
        /\ HeapType' /\ IdsPositive' /\ FilesSound'
    <2>1. 1 \in DOMAIN registry /\ Unregister(registry[1].obj, "halted", heap)
      BY <1>1, <1>2
    <2> QED BY <1>2, <2>1, Unregistered
  <1>5. \A i \in 1 .. n - 1 : Shift(1, i) \in 1 .. n /\ Shift(1, i) # 1
    BY <1>2 DEF Shift
  <1>6. OnlyCollisionsLeft'
    BY <1>2, <1>3, <1>4, <1>5 DEF OnlyCollisionsLeft, IsSpecies
  <1> QED
    BY <1>4, <1>6
    DEF PointerInvariant, Phases, AllRegistered, LiveSound, Writing, Restoring,
        Reanimating, Deleting
---------------------------------------------------------------------------
(* Every step keeps the pointers, and the files, in order.                 *)
LEMMA StepPointers ==
  ASSUME PointerInvariant, IdInvariant, [Next]_vars PROVE PointerInvariant'
  <1>1. CASE StartUp BY <1>1, StartPointers
  <1>2. CASE DefineSpecies BY <1>2, DefineSpeciesPointers
  <1>3. CASE DefineCollision BY <1>3, DefineCollisionPointers
  <1>4. CASE RegisterMain BY <1>4, RegisterMainPointers
  <1>5. CASE Advance BY <1>5, AdvancePointers
  <1>6. ASSUME NEW n \in Name, BeginCheckpt(n) PROVE PointerInvariant'
    BY <1>6, BeginCheckptPointers
  <1>7. ASSUME NEW n \in Name, BeginRestore(n) PROVE PointerInvariant'
    BY <1>7, BeginRestorePointers
  <1>8. CASE CheckptObject BY <1>8, CheckptObjectPointers
  <1>9. CASE EndCheckpt BY <1>9, EndCheckptPointers
  <1>10. CASE RestoreObject BY <1>10, RestoreObjectPointers
  <1>11. CASE EndRestore BY <1>11, EndRestorePointers
  <1>12. CASE ReanimateObject BY <1>12, ReanimateObjectPointers
  <1>13. CASE EndReanimate BY <1>13, EndReanimatePointers
  <1>14. CASE UnregisterMain BY <1>14, UnregisterMainPointers
  <1>15. CASE DeleteSimulation BY <1>15, DeleteSimulationPointers
  <1>16. CASE DeleteSpecies BY <1>16, DeleteSpeciesPointers
  <1>17. CASE halt_services BY <1>17, HaltPointers
  <1>18. CASE Crash BY <1>18, CrashPointers
  <1>19. CASE UNCHANGED vars
    <2>1. /\ UNCHANGED <<phase, registry, next_id, heap, file, name, at>>
      BY <1>19 DEF vars
    <2>2. /\ Memory' = Memory /\ Registered' = Registered /\ Vpic' = Vpic
          /\ HeapType' = HeapType /\ IdsPositive' = IdsPositive
          /\ FilesSound' = FilesSound
      BY <2>1 DEF Memory, Registered, Vpic, HeapType, IdsPositive, FilesSound
    <2>3. AllRegistered' /\ LiveSound' /\ Writing' /\ Restoring' /\ Reanimating'
          /\ Deleting' /\ OnlyCollisionsLeft'
      BY <2>1, <2>2
      DEF PointerInvariant, AllRegistered, LiveSound, Writing, Restoring,
          Reanimating, Deleting, OnlyCollisionsLeft, ObjectAt, Saved
    <2> QED BY <2>1, <2>2, <2>3 DEF PointerInvariant
  <1> QED
    BY <1>1, <1>2, <1>3, <1>4, <1>5, <1>6, <1>7, <1>8, <1>9, <1>10, <1>11,
       <1>12, <1>13, <1>14, <1>15, <1>16, <1>17, <1>18, <1>19 DEF Next, Stop

THEOREM PointersInvariant == Spec => []PointerInvariant
  <1>1. PointerInvariant /\ IdInvariant /\ [Next]_vars => PointerInvariant'
    BY StepPointers
  <1> QED BY InitPointers, IdsInvariant, <1>1, PTL DEF Spec

(* Pointers are never an address of an earlier process, or a bare id.      *)
THEOREM PointersAlwaysCurrent == Spec => []PointersCurrent
  <1>1. PointerInvariant /\ IdInvariant => PointersCurrent BY CurrentPointers
  <1> QED BY <1>1, IdsInvariant, PointersInvariant, PTL

THEOREM NothingEverFails == Spec => []NothingFails
  <1>1. PointerInvariant /\ IdInvariant => NothingFails BY CurrentPointers
  <1> QED BY <1>1, IdsInvariant, PointersInvariant, PTL

THEOREM AlwaysOnlyCollisionsLeft == Spec => []OnlyCollisionsLeft
  <1>1. PointerInvariant /\ IdInvariant => OnlyCollisionsLeft BY CurrentPointers
  <1> QED BY <1>1, IdsInvariant, PointersInvariant, PTL
---------------------------------------------------------------------------
(* What follows shows that the checkpoints do what Persist promises: the   *)
(* world is read off the registry and off the files object by object.      *)

(* The id of an object in a list, and an object with ids for pointers.     *)
IdIn(list, o) == IF IndexIn(list, o) = 0 THEN 0 ELSE list[IndexIn(list, o)].id

AsIds(list, o) == [o EXCEPT !.ptr = [m \in DOMAIN @ |-> IdIn(list, @[m])]]

Ids(list) == {list[i].id : i \in DOMAIN list}

(* w has the objects with the ids of a list.                               *)
HasIds(w, list) == w = [id \in Ids(list) |-> w[id]]

(* What a file has saved.                                                  *)
Content(f) ==
  IF f.complete
  THEN [id \in Ids(f.nodes) |->
          f.nodes[CHOOSE i \in DOMAIN f.nodes : f.nodes[i].id = id].obj]
  ELSE <<>>

AllSaved == [n \in Name |-> SavedIn(n)]

WorldView ==
  /\ WorldOf # <<>>
  /\ HasIds(WorldOf, registry)
  /\ \A i \in DOMAIN registry :
       WorldOf[registry[i].id] = AsIds(registry, heap[registry[i].obj])

FileView(n) ==
  /\ SavedIn(n) # <<>>
  /\ HasIds(SavedIn(n), file[n].nodes)
  /\ \A i \in DOMAIN file[n].nodes :
       SavedIn(n)[file[n].nodes[i].id] = file[n].nodes[i].obj

(* The world of a running process has the registered objects.              *)
LEMMA ViewNow == PointerInvariant /\ IdInvariant /\ Running => WorldView
  <1> SUFFICES ASSUME PointerInvariant, IdInvariant, Running PROVE WorldView
    OBVIOUS
  <1>1. Distinct(registry)
    BY IncreasingDistinct
    DEF IdInvariant, RegistryType, IdsUnique, PointerInvariant, IdsPositive
  <1> DEFINE K(id) == CHOOSE i \in DOMAIN registry : registry[i].id = id
             W == [id \in Ids(registry) |->
                     AsIds(registry, heap[registry[K(id)].obj])]
  <1>2. WorldOf = W
    BY DEF WorldOf, ById, Ids, AsIds, object_id, IdIn, IndexOf, IndexIn
  <1>3. \A i \in DOMAIN registry : K(registry[i].id) = i BY <1>1 DEF Distinct
  <1>4. \A i \in DOMAIN registry : registry[i].id \in Ids(registry) BY DEF Ids
  <1> HIDE DEF K
  <1>5. \A i \in DOMAIN registry : 
           W[registry[i].id] = AsIds(registry, heap[registry[i].obj])
    BY <1>3, <1>4
  <1>6. W = [id \in Ids(registry) |-> W[id]] /\ DOMAIN W = Ids(registry) OBVIOUS
  <1> HIDE DEF W
  <1>7. 1 \in DOMAIN registry BY LiveFacts DEF Running
  <1>8. W # <<>> BY <1>4, <1>6, <1>7
  <1> QED BY <1>2, <1>5, <1>6, <1>8 DEF WorldView, HasIds

LEMMA ViewNext == PointerInvariant' /\ IdInvariant' /\ Running' => WorldView'
  BY ViewNow, PTL

(* What a complete file has saved are its nodes.                           *)
LEMMA FilesNow ==
  PointerInvariant /\ IdInvariant =>
    \A n \in Name : file[n].complete => FileView(n)
  <1> SUFFICES ASSUME PointerInvariant, IdInvariant, NEW n \in Name,
                      file[n].complete
               PROVE  FileView(n)
    OBVIOUS
  <1> DEFINE s == file[n].nodes
  <1>1. Distinct(s) /\ 1 \in DOMAIN s
    BY DEF PointerInvariant, FilesSound, Sound, Rooted
  <1> HIDE DEF s
  <1> DEFINE K(id) == CHOOSE i \in DOMAIN s : s[i].id = id
             W == [id \in Ids(s) |-> s[K(id)].obj]
  <1>2. SavedIn(n) = W BY DEF SavedIn, ById, Ids, s
  <1>3. \A i \in DOMAIN s : K(s[i].id) = i BY <1>1 DEF Distinct
  <1>4. \A i \in DOMAIN s : s[i].id \in Ids(s) BY DEF Ids
  <1> HIDE DEF K
  <1>5. \A i \in DOMAIN s : W[s[i].id] = s[i].obj BY <1>3, <1>4
  <1>6. W = [id \in Ids(s) |-> W[id]] /\ DOMAIN W = Ids(s) OBVIOUS
  <1> HIDE DEF W
  <1>7. W # <<>> BY <1>1, <1>4, <1>6
  <1> QED BY <1>2, <1>5, <1>6, <1>7 DEF FileView, HasIds, s

LEMMA FilesNext ==
  PointerInvariant' /\ IdInvariant' =>
    (\A n \in Name : file[n].complete => FileView(n))'
  BY FilesNow, PTL

(* Two worlds with the same objects are the same.                          *)
LEMMA SameWorld ==
  ASSUME NEW s, NEW t, DOMAIN s = DOMAIN t,
         \A i \in DOMAIN s : s[i].id = t[i].id,
         NEW W, HasIds(W, s), NEW V, HasIds(V, t),
         \A i \in DOMAIN s : W[s[i].id] = V[t[i].id]
  PROVE  W = V
  <1>1. Ids(s) = Ids(t) BY DEF Ids
  <1>2. \A id \in Ids(s) : W[id] = V[id] BY DEF Ids
  <1> QED BY <1>1, <1>2 DEF HasIds

(* The ids of what an object points to are those its copy has.             *)
LEMMA CopyIds ==
  ASSUME PointerInvariant, IdInvariant, NEW o, IsObject(o), NEW t,
         Copied(registry, o, t, Members(o.class))
  PROVE  AsIds(registry, o) = t
  <1>1. \A p, id : Same(registry, p, id) => IdIn(registry, p) = id
    <2>1. \A p : object_id(p) = IdIn(registry, p)
      BY DEF object_id, IdIn, IndexOf, IndexIn
    <2> QED BY <2>1, ObjectIds DEF Same
  <1>2. \A m \in Members(o.class) : IdIn(registry, o.ptr[m]) = t.ptr[m]
    BY <1>1 DEF Copied
  <1>3. /\ o = [class |-> o.class, val |-> o.val, ptr |-> o.ptr]
        /\ DOMAIN o.ptr = Members(o.class)
        /\ t = [class |-> o.class, val |-> o.val, ptr |-> t.ptr]
        /\ t.ptr = [m \in Members(o.class) |-> t.ptr[m]]
    BY DEF IsObject, Copied
  <1>4. AsIds(registry, o) =
          [class |-> o.class, val |-> o.val,
           ptr |-> [m \in Members(o.class) |-> IdIn(registry, o.ptr[m])]]
    BY <1>3 DEF AsIds
  <1> QED BY <1>2, <1>3, <1>4

LEMMA SavedContent ==
  \A n : SavedIn(n) = Content(file[n]) /\ SavedIn(n)' = Content(file'[n])
  BY DEF SavedIn, Content, ById, Ids

(* The world and the files do not see a step that leaves what they are     *)
(* read from alone.                                                        *)
LEMMA NoWorld ==
  /\ ~ Running => WorldOf = <<>>
  /\ ~ Running' => WorldOf' = <<>>
  /\ Running /\ Running' /\ UNCHANGED <<registry, heap>> => UNCHANGED WorldOf
  /\ UNCHANGED file => UNCHANGED AllSaved
  <1>1. ~ Running => WorldOf = <<>> BY DEF WorldOf
  <1>2. ~ Running' => WorldOf' = <<>> BY DEF WorldOf
  <1>3. Running /\ Running' /\ UNCHANGED <<registry, heap>> => UNCHANGED WorldOf
    BY DEF WorldOf, ById, object_id, IndexOf
  <1>4. UNCHANGED file => UNCHANGED AllSaved BY SavedContent DEF AllSaved
  <1> QED BY <1>1, <1>2, <1>3, <1>4
---------------------------------------------------------------------------
(* A new process has the objects of boot_services and new_vpic.            *)
LEMMA StartWorld ==
  ASSUME StartUp, PointerInvariant', IdInvariant' PROVE P!Start
  <1>1. PICK a \in Addr : /\ registry' = <<Node(1, World), Node(2, a)>>
                          /\ heap' = With([Globals EXCEPT ![Simulation].ptr.simulation = a],
                                          a, Blank("vpic"))
    BY DEF StartUp
  <1>2. /\ DOMAIN registry' = {1, 2}
        /\ registry'[1].id = 1 /\ registry'[1].obj = World
        /\ registry'[2].id = 2 /\ registry'[2].obj = a
    BY <1>1 DEF Node
  <1>3. heap'[World] = Blank("world") /\ heap'[a] = Blank("vpic")
    <2>1. /\ World \in DOMAIN Globals /\ Globals[World] = Blank("world")
          /\ World # Simulation /\ World # a
      BY Addresses, GlobalsOk
    <2> QED BY <1>1, <2>1 DEF With
  <1>4. IdIn(registry', Null) = 0
    <2>1. \A i \in DOMAIN registry' : registry'[i].obj # Null
      BY <1>2, Addresses
    <2>2. IndexIn(registry', Null) = 0 BY <2>1 DEF IndexIn
    <2> QED BY <2>2 DEF IdIn
  <1>5. \A c \in Class : AsIds(registry', Blank(c)) = Blank(c)
    <2> SUFFICES ASSUME NEW c \in Class
                 PROVE  AsIds(registry', Blank(c)) = Blank(c)
      OBVIOUS
    <2>1. Blank(c) = [class |-> c, val |-> 0, ptr |-> [m \in Members(c) |-> Null]]
      BY DEF Blank
    <2> DEFINE p == [m \in Members(c) |-> Null]
               q == [m \in DOMAIN p |-> IdIn(registry', p[m])]
    <2>2. q = p BY <1>4, Addresses
    <2> HIDE DEF p
    <2>3. AsIds(registry', Blank(c)) = [class |-> c, val |-> 0, ptr |-> q]
      BY <2>1 DEF AsIds, p
    <2> QED BY <2>1, <2>2, <2>3 DEF p
  <1>6. WorldView' BY ViewNext DEF Running, StartUp
  <1>7. Ids(registry)' = {1, 2} BY <1>2 DEF Ids
  <1>8. /\ WorldOf' = [id \in {1, 2} |-> WorldOf'[id]]
        /\ WorldOf'[1] = Blank("world") /\ WorldOf'[2] = Blank("vpic")
    BY <1>2, <1>3, <1>5, <1>6, <1>7, Classes DEF WorldView, HasIds
  <1>9. WorldOf' = <<Blank("world"), Blank("vpic")>>
    <2> DEFINE W == WorldOf'
    <2> HIDE DEF W
    <2>1. W = [id \in {1, 2} |-> W[id]] /\ {1, 2} = 1 .. 2 BY <1>8 DEF W
    <2> QED BY <1>8, <2>1 DEF W
  <1>10. WorldOf = <<>> BY NoWorld DEF StartUp, Running
  <1>11. UNCHANGED AllSaved BY NoWorld DEF StartUp
  <1> QED BY <1>9, <1>10, <1>11 DEF P!Start, AllSaved

(* Steps of the running program change the world.                          *)
LEMMA ChangedWorld ==
  ASSUME PointerInvariant, IdInvariant, PointerInvariant', IdInvariant',
         Running, Running', UNCHANGED file
  PROVE  P!Change
  <1>1. WorldOf # <<>> /\ WorldOf' # <<>> BY ViewNow, ViewNext DEF WorldView
  <1>2. UNCHANGED AllSaved BY NoWorld
  <1> QED BY <1>1, <1>2 DEF P!Change, AllSaved

(* A checkpoint overwrites what the file has saved.                        *)
LEMMA OpenedFile ==
  ASSUME PointerInvariant, IdInvariant, NEW n \in Name, BeginCheckpt(n)
  PROVE  P!Open(n)
  <1>1. WorldOf # <<>> /\ UNCHANGED WorldOf
    BY ViewNow, NoWorld DEF BeginCheckpt, WorldView, Running
  <1>2. DOMAIN file = Name BY DEF IdInvariant, FileType
  <1>3. ~ file'[n].complete /\ \A k \in Name : k # n => file'[k] = file[k]
    BY <1>2 DEF BeginCheckpt, NoFile
  <1>4. SavedIn(n)' = <<>> BY <1>3 DEF SavedIn
  <1>5. \A k \in Name : k # n => SavedIn(k)' = SavedIn(k)
    BY <1>3, SavedContent
  <1>6. AllSaved' = [AllSaved EXCEPT ![n] = <<>>]
    BY <1>4, <1>5 DEF AllSaved
  <1> QED BY <1>1, <1>6 DEF P!Open, AllSaved

(* A file that is half written has saved nothing yet.                      *)
LEMMA WrittenFile ==
  ASSUME PointerInvariant, IdInvariant, PointerInvariant', CheckptObject
  PROVE  UNCHANGED <<WorldOf, AllSaved>>
  <1>1. phase = "write" /\ ~ file[name].complete
    BY DEF CheckptObject, PointerInvariant, Writing
  <1>2. ~ Fails BY DEF Fails, PointerInvariant, Phases
  <1>3. /\ \E t : file' = [file EXCEPT ![name].nodes = Append(@, t)]
        /\ UNCHANGED <<phase, registry, heap, name>>
    BY <1>2 DEF CheckptObject
  <1>4. DOMAIN file = Name /\ name \in Name BY DEF IdInvariant, FileType
  <1>5. ~ file'[name].complete BY <1>1, <1>3 DEF PointerInvariant, Writing
  <1>6. \A k \in Name : k # name => file'[k] = file[k] BY <1>3, <1>4
  <1>7. \A k \in Name : SavedIn(k)' = SavedIn(k)
    <2>1. \A f : ~ f.complete => Content(f) = <<>> BY DEF Content
    <2> QED BY <1>1, <1>5, <1>6, <2>1, SavedContent
  <1>8. UNCHANGED AllSaved BY <1>7 DEF AllSaved
  <1>9. UNCHANGED WorldOf BY <1>1, <1>3, NoWorld DEF Running
  <1> QED BY <1>8, <1>9

(* A checkpoint that is closed has saved the world.                        *)
LEMMA ClosedFile ==
  ASSUME PointerInvariant, IdInvariant, PointerInvariant', IdInvariant', EndCheckpt
  PROVE  \E n \in Name : P!Close(n)
  <1> DEFINE l == Len(registry)
  <1>1. PICK n \in Name : n = name BY DEF IdInvariant, FileType
  <1> DEFINE s == file[n].nodes
  <1>2. /\ phase = "write" /\ at > l /\ phase' = "advance"
        /\ file' = [file EXCEPT ![n].complete = TRUE]
        /\ UNCHANGED <<registry, heap>>
    BY <1>1 DEF EndCheckpt
  <1>3. /\ l \in Nat /\ DOMAIN registry = 1 .. l
        /\ \A i \in 1 .. l : IsObject(ObjectAt(i))
    <2>1. /\ l \in Nat /\ DOMAIN registry = 1 .. l /\ HeapOk(heap)
          /\ \A i \in 1 .. l : registry[i].obj \in DOMAIN heap
      BY <1>2, LiveFacts
    <2> QED BY <2>1 DEF HeapOk, Fits, ObjectAt
  <1>4. /\ IsList(s) /\ Len(s) = at - 1 /\ at - 1 <= l /\ at \in Nat
        /\ \A i \in 1 .. at - 1 : s[i].id = registry[i].id
    BY <1>1, <1>2 DEF IdInvariant, FileType, RegistryType, Half, SameIds
  <1>5. at - 1 = l /\ DOMAIN s = 1 .. l
    BY <1>2, <1>3, <1>4, ListDomain
  <1>6. /\ file'[n].nodes = s /\ file'[n].complete
        /\ \A k \in Name : k # n => file'[k] = file[k]
    <2>1. /\ DOMAIN file = Name
          /\ file[n] = [nodes |-> s, next_id |-> file[n].next_id,
                        complete |-> file[n].complete]
      BY DEF IdInvariant, FileType
    <2> QED BY <1>2, <2>1
  <1>7. \A i \in 1 .. l :
          Copied(registry, ObjectAt(i), s[i].obj, Members(ObjectAt(i).class))
    BY <1>1, <1>2, <1>5 DEF PointerInvariant, Writing, Saved
  <1> HIDE DEF s
  <1>8. \A i \in 1 .. l : AsIds(registry, ObjectAt(i)) = s[i].obj
    BY <1>3, <1>7, CopyIds
  <1>9. WorldView BY <1>2, ViewNow DEF Running
  <1>10. FileView(n)' BY <1>6, FilesNext
  <1>11. SavedIn(n)' = WorldOf
    <2> DEFINE V == SavedIn(n)'
    <2>1. HasIds(V, s) /\ \A i \in 1 .. l : V[s[i].id] = s[i].obj
      BY <1>5, <1>6, <1>10 DEF FileView
    <2> HIDE DEF V
    <2>2. /\ HasIds(WorldOf, registry)
          /\ \A i \in 1 .. l : WorldOf[registry[i].id] = s[i].obj
      BY <1>3, <1>8, <1>9 DEF WorldView, ObjectAt
    <2>3. /\ DOMAIN s = DOMAIN registry
          /\ \A i \in DOMAIN s : /\ s[i].id = registry[i].id
                                 /\ V[s[i].id] = WorldOf[registry[i].id]
      BY <1>3, <1>4, <1>5, <2>1, <2>2
    <2>4. V = WorldOf BY <2>1, <2>2, <2>3, SameWorld
    <2> QED BY <2>4 DEF V
  <1>12. \A k \in Name : k # n => SavedIn(k)' = SavedIn(k)
    BY <1>6, SavedContent
  <1>13. AllSaved' = [AllSaved EXCEPT ![n] = WorldOf]
    BY <1>11, <1>12 DEF AllSaved
  <1>14. WorldOf # <<>> BY <1>9 DEF WorldView
  <1>15. UNCHANGED WorldOf BY <1>2, NoWorld DEF Running
  <1>16. P!Close(n) BY <1>13, <1>14, <1>15 DEF P!Close, AllSaved
  <1> QED BY <1>16

(* A restart ends with the world that the file has saved.                  *)
LEMMA RestartedWorld ==
  ASSUME PointerInvariant, IdInvariant, PointerInvariant', IdInvariant',
         EndReanimate
  PROVE  \E n \in Name : P!Restart(n)
  <1> DEFINE l == Len(registry)
  <1>1. PICK n \in Name : n = name BY DEF IdInvariant, FileType
  <1> DEFINE s == file[n].nodes
  <1>2. /\ phase = "reanimate" /\ at > l /\ phase' = "advance"
        /\ UNCHANGED <<registry, heap, file>>
    BY DEF EndReanimate
  <1>3. /\ l \in Nat /\ DOMAIN registry = 1 .. l /\ DOMAIN s = 1 .. l
        /\ \A i \in 1 .. l : /\ registry[i].id = s[i].id /\ IsObject(ObjectAt(i))
        /\ at \in Nat
    BY <1>1, <1>2, ReanimateFacts DEF IdInvariant, RegistryType, Fits
  <1>4. \A i \in 1 .. l :
          Copied(registry, ObjectAt(i), s[i].obj, Members(ObjectAt(i).class))
    <2>1. \A i \in 1 .. l : i < at BY <1>2, <1>3
    <2> QED BY <1>1, <1>2, <2>1, ReanimateFacts DEF Saved
  <1> HIDE DEF s
  <1>5. \A i \in 1 .. l : AsIds(registry, heap[registry[i].obj]) = s[i].obj
    BY <1>3, <1>4, CopyIds DEF ObjectAt
  <1>6. WorldView' BY <1>2, ViewNext DEF Running
  <1>7. FileView(n)
    BY <1>1, <1>2, FilesNow DEF PointerInvariant, Restoring
  <1>8. WorldOf' = SavedIn(n)
    <2> DEFINE V == WorldOf'
    <2>1. HasIds(V, registry) /\ \A i \in 1 .. l : V[registry[i].id] = s[i].obj
      BY <1>2, <1>3, <1>5, <1>6 DEF WorldView
    <2> HIDE DEF V
    <2>2. HasIds(SavedIn(n), s) /\ \A i \in 1 .. l : SavedIn(n)[s[i].id] = s[i].obj
      BY <1>3, <1>7 DEF FileView, s
    <2>3. V = SavedIn(n) BY <1>3, <2>1, <2>2, SameWorld
    <2> QED BY <2>3 DEF V
  <1>9. WorldOf = <<>> BY <1>2, NoWorld DEF Running
  <1>10. UNCHANGED AllSaved BY <1>2, NoWorld
  <1>11. SavedIn(n) # <<>> BY <1>7 DEF FileView
  <1>12. P!Restart(n) BY <1>8, <1>9, <1>10, <1>11 DEF P!Restart, AllSaved
  <1> QED BY <1>12
---------------------------------------------------------------------------
LEMMA InitWorld == Init => P!Init
  <1> SUFFICES ASSUME Init PROVE P!Init OBVIOUS
  <1>1. WorldOf = <<>> BY NoWorld DEF Init, Running
  <1>2. \A n \in Name : SavedIn(n) = <<>> BY DEF Init, NoFile, SavedIn
  <1> QED BY <1>1, <1>2 DEF P!Init

(* A step of the checkpoint service is a step of Persist or a stutter.     *)
LEMMA StepWorld ==
  ASSUME PointerInvariant, IdInvariant, PointerInvariant', IdInvariant',
         [Next]_vars
  PROVE  [P!Next]_<<WorldOf, AllSaved>>
  <1> DEFINE Stutter == UNCHANGED <<WorldOf, AllSaved>>
             Step == P!Next \/ Stutter
  <1>1. ~ Running /\ ~ Running' /\ UNCHANGED file => Step
    BY NoWorld
  <1>2. ~ Running' /\ UNCHANGED file => P!End
    BY NoWorld DEF P!End, AllSaved
  <1>3. ~ Fails BY DEF Fails, PointerInvariant, Phases
  <1> SUFFICES Step OBVIOUS
  <1>4. CASE StartUp BY <1>4, StartWorld DEF P!Next
  <1>5. CASE DefineSpecies
    BY <1>5, ChangedWorld DEF DefineSpecies, Define, Running, P!Next
  <1>6. CASE DefineCollision
    BY <1>6, ChangedWorld DEF DefineCollision, Define, Running, P!Next
  <1>7. CASE RegisterMain BY <1>7, ChangedWorld DEF RegisterMain, Running, P!Next
  <1>8. CASE Advance BY <1>8, ChangedWorld DEF Advance, Running, P!Next
  <1>9. ASSUME NEW n \in Name, BeginCheckpt(n) PROVE Step
    BY <1>9, OpenedFile DEF P!Next
  <1>10. ASSUME NEW n \in Name, BeginRestore(n) PROVE Step
    BY <1>1, <1>10 DEF BeginRestore, Running
  <1>11. CASE CheckptObject BY <1>11, WrittenFile DEF Step
  <1>12. CASE EndCheckpt BY <1>12, ClosedFile DEF P!Next
  <1>13. CASE RestoreObject
    BY <1>1, <1>3, <1>13 DEF RestoreObject, Running
  <1>14. CASE EndRestore BY <1>1, <1>14 DEF EndRestore, Running
  <1>15. CASE ReanimateObject
    BY <1>1, <1>3, <1>15 DEF ReanimateObject, Running
  <1>16. CASE EndReanimate BY <1>16, RestartedWorld DEF P!Next
  <1>17. CASE UnregisterMain
    BY <1>2, <1>3, <1>17 DEF UnregisterMain, Unregister, Running, P!Next
  <1>18. CASE DeleteSimulation
    BY <1>1, <1>3, <1>18 DEF DeleteSimulation, Unregister, Running
  <1>19. CASE DeleteSpecies
    BY <1>1, <1>3, <1>19 DEF DeleteSpecies, Unregister, Running
  <1>20. CASE halt_services
    BY <1>1, <1>3, <1>20 DEF halt_services, Unregister, Running
  <1>21. CASE Crash BY <1>2, <1>21 DEF Crash, Running, P!Next
  <1>22. CASE UNCHANGED vars
    <2>1. UNCHANGED <<phase, registry, heap, file>> BY <1>22 DEF vars
    <2>2. UNCHANGED AllSaved BY <2>1, NoWorld
    <2>3. UNCHANGED WorldOf
      <3>1. CASE Running BY <2>1, <3>1, NoWorld DEF Running
      <3>2. CASE ~ Running BY <2>1, <3>2, NoWorld DEF Running
      <3> QED BY <3>1, <3>2
    <2> QED BY <2>2, <2>3 DEF Step
  <1> QED
    BY <1>4, <1>5, <1>6, <1>7, <1>8, <1>9, <1>10, <1>11, <1>12, <1>13, <1>14,
       <1>15, <1>16, <1>17, <1>18, <1>19, <1>20, <1>21, <1>22 DEF Next, Stop

(* A process that restarts from a complete file finds the objects as they  *)
(* were when the checkpoint was closed (checkpt.cc: checkpt_objects,       *)
(* restore_objects and reanimate_objects), whatever ran, was killed or was *)
(* written in between.                                                     *)
THEOREM CheckptImplementsPersist == Spec => PersistSpec
  <1>1. /\ IdInvariant /\ PointerInvariant /\ [Next]_vars
        /\ IdInvariant' /\ PointerInvariant'
        => [P!Next]_<<WorldOf, AllSaved>>
    BY StepWorld
  <1>2. Spec => P!Init /\ [][P!Next]_<<WorldOf, AllSaved>>
    BY InitWorld, IdsInvariant, PointersInvariant, <1>1, PTL DEF Spec
  <1> QED BY <1>2, PTL DEF PersistSpec, P!Spec, AllSaved
=============================================================================
