------------------------------ MODULE Checkpt ------------------------------
(***************************************************************************)
(* The checkpoint service of one process and the objects that use it.      *)
(*                                                                         *)
(* An object is registered when it is made: it gets the next id and goes   *)
(* to the end of the registry.  A checkpoint writes the objects in that    *)
(* order, a pointer as the id of what it points to.  A restore makes them  *)
(* in that order, anywhere in memory.  A pointer is looked up at once      *)
(* (RESTORE_PTR), which needs its target to be there, or keeps the bare id *)
(* until all objects are there and reanimate looks it up (RESTORE_FPTR).   *)
(*                                                                         *)
(* Modelled are the classes that differ in this: what boot_services        *)
(* registers (static, no pointers), the simulation (heads of lists that    *)
(* grow after it was registered), species, collision operators, and main's *)
(* pointer to the simulation.  A deck may define species and operators at  *)
(* any time.  The process may be killed at any time; who restarts it takes *)
(* a file whose writing had ended.                                         *)
(***************************************************************************)
EXTENDS Integers, FiniteSets, Sequences

CONSTANTS
  Addr,        \* addresses of the heap
  World,       \* the address of __world, which stands for all services
  Simulation,  \* the address of main's global pointer, simulation
  Name,        \* names of checkpoint files
  MaxStep,     \* bound on the time steps
  MaxObject,   \* bound on the registered objects
  MaxStart     \* bound on the starts of a process

Null == 0

ASSUME AddrAssumption ==
  /\ Addr \cup {World, Simulation} \subseteq Nat \ {Null}
  /\ World \notin Addr /\ Simulation \notin Addr /\ World # Simulation

ASSUME NameAssumption == Name # {}

ASSUME BoundAssumption == {MaxStep, MaxObject, MaxStart} \subseteq Nat

Static == {World, Simulation}

(* The members of a class that a restore function reads with RESTORE_PTR   *)
(* and with RESTORE_FPTR.                                                  *)
Ptrs == [world      |-> {},
         vpic       |-> {},
         species    |-> {"next"},
         collision  |-> {"sp", "next"},
         simulation |-> {"simulation"}]

FPtrs == [c \in DOMAIN Ptrs |->
            IF c = "vpic" THEN {"species_list", "collision_op_list"} ELSE {}]

Class == DOMAIN Ptrs
Members(c) == Ptrs[c] \cup FPtrs[c]

VARIABLES
  phase,      \* what the process does; "down": there is none
  registry,   \* the list of [id, obj]
  next_id,    \* the id of the next object to be registered
  heap,       \* heap[a]: the object at address a, [class, val, ptr]
  file,       \* file[n]: [nodes, next_id, complete]
  name,       \* the file that is written or read
  at,         \* the next object to be written, restored or reanimated
  starts      \* how often a process has been started

vars == <<phase, registry, next_id, heap, file, name, at, starts>>

(* An object with no pointer set, and the memory of a process that boots.  *)
Blank(c) == [class |-> c, val |-> 0, ptr |-> [m \in Members(c) |-> Null]]
Globals == [a \in Static |-> Blank(IF a = World THEN "world" ELSE "simulation")]
NoFile == [nodes |-> <<>>, next_id |-> 0, complete |-> FALSE]

(* The first index of the registry with the object, or the id; 0 if none.  *)
IndexOf(o) ==
  LET at_o == {i \in DOMAIN registry : registry[i].obj = o}
  IN IF at_o = {} THEN 0 ELSE CHOOSE i \in at_o : \A j \in at_o : i <= j

object_id(o) == IF IndexOf(o) = 0 THEN 0 ELSE registry[IndexOf(o)].id

ObjectPtr(list, id) ==
  LET at_id == {i \in DOMAIN list : list[i].id = id}
  IN IF at_id = {} THEN Null
     ELSE list[CHOOSE i \in at_id : \A j \in at_id : i <= j].obj

Node(id, o) == [id |-> id, obj |-> o]

Fails == /\ phase' = "error"
         /\ UNCHANGED <<registry, next_id, heap, file, name, at, starts>>

(* The ERROR for an object that is registered already cannot happen: MALLOC*)
(* gives a free address, and main registers its pointer once.              *)
register_object(o) ==
  /\ IndexOf(o) = 0
  /\ registry' = Append(registry, Node(next_id, o))
  /\ next_id' = next_id + 1

Without(s, k) == [i \in 1 .. Len(s) - 1 |-> s[IF i < k THEN i ELSE i + 1]]

unregister_object(o) == registry' = Without(registry, IndexOf(o))

(* Where MALLOC may put an object of the run.                              *)
Free == Addr \ DOMAIN heap
With(h, a, o) == [b \in DOMAIN h \cup {a} |-> IF b = a THEN o ELSE h[b]]

Vpic == heap[Simulation].ptr.simulation
---------------------------------------------------------------------------
Init ==
  /\ phase = "down"
  /\ registry = <<>> /\ next_id = 1
  /\ heap = Globals
  /\ file = [n \in Name |-> NoFile]
  /\ name = CHOOSE n \in Name : TRUE
  /\ at = 1
  /\ starts = 0

(* boot_services, then simulation = new vpic_simulation().                 *)
StartUp ==
  /\ phase = "down" /\ starts < MaxStart
  /\ \E a \in Addr :
       /\ registry' = <<Node(1, World), Node(2, a)>>
       /\ heap' = With([Globals EXCEPT ![Simulation].ptr.simulation = a],
                       a, Blank("vpic"))
  /\ next_id' = 3
  /\ phase' = "initialize"
  /\ starts' = starts + 1
  /\ UNCHANGED <<file, name, at>>

PrependLast(h, head, a, o) ==
  LET last == {b \in DOMAIN h : h[b].class = o.class /\ h[b].ptr.next = Null}
      grown == With(h, a, o)
  IN IF last = {} THEN [grown EXCEPT ![Vpic].ptr[head] = a]
     ELSE [grown EXCEPT ![CHOOSE b \in last : TRUE].ptr.next = a]

(* append_species and append_collision_op put the new object in front.     *)
Prepend(h, head, a, o) ==
  [With(h, a, [o EXCEPT !.ptr.next = h[Vpic].ptr[head]])
     EXCEPT ![Vpic].ptr[head] = a]

Define(head, a, o) ==
  /\ phase \in {"initialize", "advance"}
  /\ Len(registry) < MaxObject
  /\ register_object(a)
  /\ heap' = Prepend(heap, head, a, o)
  /\ UNCHANGED <<phase, file, name, at, starts>>

DefineSpecies == \E a \in Free : Define("species_list", a, Blank("species"))

DefineCollision ==
  \E a \in Free, s \in DOMAIN heap :
    /\ heap[s].class = "species"
    /\ Define("collision_op_list", a, [Blank("collision") EXCEPT !.ptr.sp = s])

(* main, when initialize has returned.                                     *)
RegisterMain ==
  /\ phase = "initialize"
  /\ register_object(Simulation)
  /\ phase' = "advance"
  /\ UNCHANGED <<heap, file, name, at, starts>>

(* A time step changes the contents of the simulation and its species.     *)
Advance ==
  /\ phase = "advance" /\ heap[Vpic].val < MaxStep
  /\ heap' = [a \in DOMAIN heap |->
                IF heap[a].class \in {"vpic", "species"}
                THEN [heap[a] EXCEPT !.val = heap[Vpic].val + 1] ELSE heap[a]]
  /\ UNCHANGED <<phase, registry, next_id, file, name, at, starts>>
---------------------------------------------------------------------------
BeginCheckpt(n) ==
  /\ phase = "advance"
  /\ phase' = "write" /\ name' = n /\ at' = 1
  /\ file' = [file EXCEPT ![n] = [NoFile EXCEPT !.next_id = next_id]]
  /\ UNCHANGED <<registry, next_id, heap, starts>>

(* A pointer is written as an id.                                          *)
WrittenNoLists(o) ==
  [o EXCEPT !.ptr = [m \in DOMAIN o.ptr |->
                       IF m = "next" THEN Null ELSE object_id(o.ptr[m])]]
Written(o) == [o EXCEPT !.ptr = [m \in DOMAIN o.ptr |-> object_id(o.ptr[m])]]

CheckptObject ==
  /\ phase = "write" /\ at <= Len(registry)
  /\ LET node == registry[at]
         o == heap[node.obj]
     IN IF \E m \in DOMAIN o.ptr : o.ptr[m] # Null /\ object_id(o.ptr[m]) = 0
        THEN Fails
        ELSE /\ file' = [file EXCEPT ![name].nodes =
                           Append(@, [id |-> node.id, obj |-> Written(o)])]
             /\ at' = at + 1
             /\ UNCHANGED <<phase, registry, next_id, heap, name, starts>>

EndCheckpt ==
  /\ phase = "write" /\ at > Len(registry)
  /\ phase' = "advance"
  /\ file' = [file EXCEPT ![name].complete = TRUE]
  /\ UNCHANGED <<registry, next_id, heap, name, at, starts>>
---------------------------------------------------------------------------
(* The process is killed, or has ended with an error.                      *)
Crash ==
  /\ phase \notin {"down", "halted"}
  /\ phase' = "down"
  /\ registry' = <<>> /\ next_id' = 1 /\ heap' = Globals /\ at' = 1
  /\ UNCHANGED <<file, name, starts>>

(* boot_services, whose registrations restore_objects throws away, and the *)
(* begin of restore_objects, which reads the next id from the file.        *)
RestoredIdFromBoot(f) == 2
RestoredId(f) == f.next_id

BeginRestore(n) ==
  /\ phase = "down" /\ starts < MaxStart
  /\ file[n].complete
  /\ phase' = "restore" /\ name' = n /\ at' = 1
  /\ registry' = <<>> /\ next_id' = RestoredId(file[n])
  /\ starts' = starts + 1
  /\ UNCHANGED <<heap, file>>

(* The restore function of an object looks its pointers up in the registry *)
(* and allocates it, but for the static objects.                           *)
Place(o) == IF o.class = "world" THEN {World}
            ELSE IF o.class = "simulation" THEN {Simulation} ELSE Free

Restored(o, list) ==
  [o EXCEPT !.ptr = [m \in DOMAIN o.ptr |->
                       IF m \in Ptrs[o.class] THEN ObjectPtr(list, o.ptr[m])
                       ELSE o.ptr[m]]]

RestoreObject ==
  /\ phase = "restore" /\ at <= Len(file[name].nodes)
  /\ LET node == file[name].nodes[at]
         o == Restored(node.obj, registry)
     IN IF \E m \in Ptrs[o.class] : node.obj.ptr[m] # 0 /\ o.ptr[m] = Null
        THEN Fails
        ELSE \E a \in Place(o) :
               /\ registry' = Append(registry, Node(node.id, a))
               /\ heap' = With(heap, a, o)
               /\ at' = at + 1
               /\ UNCHANGED <<phase, next_id, file, name, starts>>

EndRestore ==
  /\ phase = "restore" /\ at > Len(file[name].nodes)
  /\ phase' = "reanimate" /\ at' = 1
  /\ UNCHANGED <<registry, next_id, heap, file, name, starts>>

(* The pointers that the reanimate function of a class looks up.           *)
ReanimatedOnlySpecies(c) == FPtrs[c] \ {"collision_op_list"}
Reanimated(c) == FPtrs[c]

ReanimateObject ==
  /\ phase = "reanimate" /\ at <= Len(registry)
  /\ LET a == registry[at].obj
         o == heap[a]
         now == [m \in DOMAIN o.ptr |->
                   IF m \in Reanimated(o.class)
                   THEN ObjectPtr(registry, o.ptr[m]) ELSE o.ptr[m]]
     IN IF \E m \in Reanimated(o.class) : o.ptr[m] # 0 /\ now[m] = Null
        THEN Fails
        ELSE /\ heap' = [heap EXCEPT ![a].ptr = now]
             /\ at' = at + 1
             /\ UNCHANGED <<phase, registry, next_id, file, name, starts>>

EndReanimate ==
  /\ phase = "reanimate" /\ at > Len(registry)
  /\ phase' = "advance"
  /\ UNCHANGED <<registry, next_id, heap, file, name, at, starts>>
---------------------------------------------------------------------------
(* The run is over: main and then the destructor of the simulation take    *)
(* their objects out of the registry one by one; the destructor deletes    *)
(* the species list, and no one the collision operators.                   *)
Unregister(o, then, memory) ==
  IF IndexOf(o) = 0 THEN Fails
  ELSE /\ unregister_object(o)
       /\ phase' = then /\ heap' = memory
       /\ UNCHANGED <<next_id, file, name, at, starts>>

UnregisterMain == phase = "advance" /\ Unregister(Simulation, "finalize", heap)

DeleteSimulation == phase = "finalize" /\ Unregister(Vpic, "delete", heap)

(* What is left of a list when its head is deleted.                        *)
RestNone(head) == Null
Rest(head) == heap[head].ptr.next

DeleteSpecies ==
  LET head == heap[Vpic].ptr.species_list
  IN /\ phase = "delete" /\ head # Null
     /\ Unregister(head, "delete",
                   [heap EXCEPT ![Vpic].ptr.species_list = Rest(head)])

halt_services ==
  /\ phase = "delete" /\ heap[Vpic].ptr.species_list = Null
  /\ Unregister(World, "halted", heap)

Stop == phase \in {"down", "halted"} /\ UNCHANGED vars

Next ==
  \/ StartUp \/ DefineSpecies \/ DefineCollision \/ RegisterMain \/ Advance
  \/ \E n \in Name : BeginCheckpt(n) \/ BeginRestore(n)
  \/ CheckptObject \/ EndCheckpt
  \/ RestoreObject \/ EndRestore \/ ReanimateObject \/ EndReanimate
  \/ UnregisterMain \/ DeleteSimulation \/ DeleteSpecies \/ halt_services
  \/ Crash \/ Stop

Spec == Init /\ [][Next]_vars
---------------------------------------------------------------------------
Running == phase \in {"initialize", "advance", "write"}

(* An id names one object for the whole life of a run, over any number of  *)
(* restarts: the registry and every file list their ids in increasing      *)
(* order and below the next id they go on with (checkpt.cc: register_object*)
(* counts on, restore_objects takes the count from the file).              *)
Increasing(list, bound) ==
  /\ \A i \in DOMAIN list : list[i].id < bound
  /\ \A i, j \in DOMAIN list : i < j => list[i].id < list[j].id

IdsUnique ==
  /\ Increasing(registry, next_id)
  /\ \A n \in Name : Increasing(file[n].nodes, file[n].next_id)

(* While the program runs every pointer of a registered object is NULL or  *)
(* leads to a registered object of the class it is declared for; none is   *)
(* an address of an earlier process or a bare id (vpic.cc:                 *)
(* reanimate_vpic_simulation and the RESTORE_PTRs).                        *)
Target(m) == CASE m \in {"next"} -> {"species", "collision"}
               [] m \in {"sp", "species_list"} -> {"species"}
               [] m = "collision_op_list" -> {"collision"}
               [] m = "simulation" -> {"vpic"}

PointersCurrent ==
  Running =>
    \A i \in DOMAIN registry :
      LET o == heap[registry[i].obj]
      IN \A m \in DOMAIN o.ptr :
           o.ptr[m] # Null => /\ object_id(o.ptr[m]) # 0
                             /\ heap[o.ptr[m]].class \in Target(m)

(* No checkpoint, restore or unregistration ends with an ERROR: every      *)
(* pointer that is written leads to a registered object, and every pointer *)
(* that a restore function looks up was registered before the object it    *)
(* is part of, although lists go on growing (checkpt.h: the dependency     *)
(* network is a DAG in the order of registration).                         *)
NothingFails == phase # "error"

(* When halt_checkpt looks at the registry, nothing is left in it but the  *)
(* collision operators, which no destructor deletes: a run without them    *)
(* ends normally, also after restarts.                                     *)
OnlyCollisionsLeft ==
  phase = "halted" =>
    \A i \in DOMAIN registry : heap[registry[i].obj].class = "collision"

(* A restart restores what the checkpoint saved.  The world is the objects *)
(* by their ids, with pointers as ids; a restored process has it when the  *)
(* last reanimate function has returned.                                   *)
ById(list, o(_)) ==
  [id \in {list[i].id : i \in DOMAIN list} |->
     o(list[CHOOSE i \in DOMAIN list : list[i].id = id])]

WorldOf ==
  LET Now(node) ==
        LET o == heap[node.obj]
        IN [o EXCEPT !.ptr = [m \in DOMAIN @ |-> object_id(@[m])]]
  IN IF Running THEN ById(registry, Now) ELSE <<>>

SavedIn(n) == LET Then(node) == node.obj
              IN IF file[n].complete THEN ById(file[n].nodes, Then) ELSE <<>>

P == INSTANCE Persist WITH
       world <- WorldOf,
       saved <- [n \in Name |-> SavedIn(n)],
       Fresh <- <<Blank("world"), Blank("vpic")>>,
       Nothing <- <<>>

PersistSpec == P!Spec
=============================================================================
