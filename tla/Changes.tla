------------------------------ MODULE Changes ------------------------------
(***************************************************************************)
(* What an instruction does to the state that every node replicates:       *)
(* applyChanges of shared/store, with attachments, transient entities and  *)
(* names, as operators on the state as a value.                            *)
(*                                                                         *)
(* A state is a record                                                     *)
(*   next      the ID of the next entity, kept in the Global store         *)
(*   entities  a function from entity IDs to the entity's keys: a function *)
(*             from keys to values.  "id" is left out, for it is the       *)
(*             entity's own ID, and so are password and salt               *)
(*                                                                         *)
(* A change is "create" or "delete" (the code sets or clears "id"), "next" *)
(* (the code sets "next entity" of Global), or "set" a key to a value,     *)
(* where the value NoValue unsets it.                                      *)
(***************************************************************************)
EXTENDS Naturals, Sequences, SequencesExt, TLC

CONSTANTS
    Names,          \* usernames, of which the empty one may be one
    MaxChanges      \* bound: the changes a request amounts to

FirstEntity == 65536

Kind == <<"kind">>
Name == <<"name username">>
Transient == <<"transient">>
Attach(id) == <<"attach", id>>
IsAttach(key) == key[1] = "attach"

NoValue == ""
True == "true"

ASSUME ChangesAssumption == MaxChanges \in Nat

Create(id) == [op |-> "create", target |-> id]
Delete(id) == [op |-> "delete", target |-> id]
Set(id, key, value) ==
    [op |-> "set", target |-> id, key |-> key, value |-> value]
NextEntity(id) == [op |-> "next", target |-> 0, next |-> id]

EmptyState == [next |-> FirstEntity, entities |-> <<>>]

-----------------------------------------------------------------------------
(* Looking things up in a state.                                           *)
Exists(st, id) == id \in DOMAIN st.entities

Value(st, id, key) ==
    IF Exists(st, id) /\ key \in DOMAIN st.entities[id]
    THEN st.entities[id][key] ELSE NoValue

AllAttached(st, id) == {key[2] : key \in {k \in DOMAIN st.entities[id] : IsAttach(k)}}

AllAttachedTo(st, id) ==
    {e \in DOMAIN st.entities : Attach(id) \in DOMAIN st.entities[e]}

OfKind(st, kind) == {e \in DOMAIN st.entities : Value(st, e, Kind) = kind}

(* The entities that NameLookup may return; it returns 0 for none.         *)
Named(st, kind, name) == {e \in OfKind(st, kind) : Value(st, e, Name) = name}

Nameless(st) == Named(st, "user", NoValue)

-----------------------------------------------------------------------------
(* A map that gives the keys in K a value, and others what f gives them.   *)
Put(f, K, value) == [x \in DOMAIN f \cup K |-> IF x \in K THEN value ELSE f[x]]

(* Changing one thing in a state.                                          *)
WithEntity(st, id) == [st EXCEPT !.entities = Put(@, {id}, <<>>)]

WithoutEntity(st, id) ==
    [st EXCEPT !.entities = [e \in DOMAIN @ \ {id} |-> @[e]]]

WithValue(st, id, key, value) ==
    [st EXCEPT !.entities[id] =
        IF value # NoValue THEN Put(@, {key}, value)
                           ELSE [k \in DOMAIN @ \ {key} |-> @[k]]]

-----------------------------------------------------------------------------
(* applyChanges works through a list of changes that it extends and        *)
(* rewrites as it goes.  The work is a record: the state so far, the       *)
(* changes done (in their idempotent form), those left to do, and the      *)
(* entities whose rename was applied.                                      *)
Work(st, changes) ==
    [state |-> st, done |-> <<>>, todo |-> changes, renamed |-> {}]

Done(w, st, change) ==
    [w EXCEPT !.state = st, !.done = Append(@, change), !.todo = Tail(@)]

\* Mutant of Drop: the change stays in the list.
DropKept(w) == Done(w, w.state, Head(w.todo))

Drop(w) == [w EXCEPT !.todo = Tail(@)]

Inject(w, changes) == [w EXCEPT !.todo = changes \o @]

(* References to a new entity by the ID it has within the request become   *)
(* references to its real ID.                                              *)
Rewritten(c, old, new) ==
    IF c.op = "set"
    THEN Set(IF c.target = old THEN new ELSE c.target,
             IF c.key = Attach(old) THEN Attach(new) ELSE c.key, c.value)
    ELSE IF c.target = old THEN [c EXCEPT !.target = new] ELSE c

CreateEntity(w, c) ==
    LET id == w.state.next
        rest == <<NextEntity(id + 1)>> \o Tail(w.todo)
    IN  [w EXCEPT
            !.state = WithEntity(@, id),
            !.done = Append(@, Create(id)),
            !.todo = [i \in DOMAIN rest |-> Rewritten(rest[i], c.target, id)]]

(* A deleted entity is detached from all it is attached to.                *)
DeleteEntity(w, c) ==
    LET detach == {Set(e, Attach(c.target), NoValue) :
                      e \in AllAttachedTo(w.state, c.target)}
    IN  Inject(Done(w, WithoutEntity(w.state, c.target), c), SetToSeq(detach))

(* Setting an entity transient, or detaching something from one that is,   *)
(* deletes it when nothing is attached.                                    *)
SetOrExpire(w, c, st) ==
    IF AllAttached(st, c.target) = {}
    THEN Inject(Done(w, st, c), <<Delete(c.target)>>)
    ELSE Done(w, st, c)

(* tryNameSatisfy: the renames still to come are followed from the entity  *)
(* that has the name, each to the one that has its new name, until a name  *)
(* is free or the circle closes.  The result is empty if the chain ends.   *)
Renames(w, id) ==
    {c \in ToSet(w.todo) : c.op = "set" /\ c.target = id /\ c.key = Name}

tryNameSatisfy(w, c, owner) ==
    LET kind == Value(w.state, c.target, Kind)
        \* The entities renamed after k links, or <<>> where it failed.
        chain[k \in Nat] ==
            IF k = 0 THEN [ids |-> <<c.target>>, owner |-> {owner}]
            ELSE LET l == chain[k - 1]
                     e == CHOOSE e \in l.owner : TRUE
                     new == CHOOSE r \in Renames(w, e) : TRUE
                 IN  IF \/ l.owner = {}
                        \/ l.owner \subseteq ToSet(l.ids)
                     THEN l
                     ELSE IF \/ Renames(w, e) = {}
                             \/ e \in w.renamed
                             \/ e \in Named(w.state, kind, new.value)
                     THEN [ids |-> <<>>, owner |-> {}]
                     ELSE [ids |-> Append(l.ids, e),
                           owner |-> Named(w.state, kind, new.value)]
    IN  ToSet(chain[Len(w.todo)].ids)

applyRenames(w, ids) ==
    [w.state EXCEPT !.entities =
        [e \in DOMAIN @ |->
            IF e \in ids
            THEN Put(@[e], {Name}, (CHOOSE r \in Renames(w, e) : TRUE).value)
            ELSE @[e]]]

\* Mutant of Rename: a name may be given twice.
RenameAny(w, c) == Done(w, WithValue(w.state, c.target, Name, c.value), c)

(* A name that another entity of the kind has is given only together with  *)
(* renames that free it; otherwise the change is dropped.  NameLookup      *)
(* finds any of the owners: for the empty name there may be many, the      *)
(* target among them, but it makes no difference to the state which.       *)
Rename(w, c) ==
    LET named == WithValue(w.state, c.target, Name, c.value)
        owners == Named(w.state, Value(w.state, c.target, Kind), c.value)
        ids == tryNameSatisfy(w, c, CHOOSE e \in owners \ {c.target} : TRUE)
    IN  IF c.target \in w.renamed THEN Done(w, named, c)
        ELSE IF owners \subseteq {c.target}
        THEN [Done(w, named, c) EXCEPT !.renamed = @ \cup {c.target}]
        ELSE IF ids = {} THEN Drop(w)
        ELSE [Done(w, applyRenames(w, ids), c) EXCEPT !.renamed = @ \cup ids]

SetValue(w, c) ==
    LET set == WithValue(w.state, c.target, c.key, c.value)
    IN  IF \/ c.key = Transient /\ c.value # NoValue
           \/ /\ IsAttach(c.key) /\ c.value = NoValue
              /\ Value(w.state, c.target, Transient) # NoValue
        THEN SetOrExpire(w, c, set)
        ELSE IF c.key = Name THEN Rename(w, c)
        ELSE Done(w, set, c)

(* One round of the loop of applyChanges.                                  *)
ApplyChange(w, idempotent) ==
    LET c == Head(w.todo)
    IN  IF w.todo = <<>> THEN w
        ELSE IF c.op = "create"
        THEN IF idempotent THEN Done(w, WithEntity(w.state, c.target), c)
                           ELSE CreateEntity(w, c)
        ELSE IF c.op = "delete"
        THEN IF idempotent THEN Done(w, WithoutEntity(w.state, c.target), c)
                           ELSE DeleteEntity(w, c)
        ELSE IF c.op = "next"
        THEN Done(w, [w.state EXCEPT !.next = c.next], c)
        ELSE IF ~Exists(w.state, c.target) THEN Drop(w)
        ELSE IF idempotent
        THEN Done(w, WithValue(w.state, c.target, c.key, c.value), c)
        ELSE SetValue(w, c)

(* n steps from an initial value: a fold whose bound variable makes TLC    *)
(* evaluate each step once.                                                *)
Iterated(Step(_), initial, n) ==
    LET after[k \in 0 .. n] ==
            IF k = 0 THEN initial
            ELSE CHOOSE y \in {Step(x) : x \in {after[k - 1]}} : TRUE
    IN  after[n]

(* applyChanges: the new state, the idempotent form of the changes, and    *)
(* whether MaxChanges rounds were enough for them.                         *)
applyChanges(st, changes, idempotent) ==
    LET Round(w) == ApplyChange(w, idempotent)
        Result(w) ==
            [state |-> w.state, changes |-> w.done,
             complete |-> /\ Assert(w.todo = <<>>, "MaxChanges is too small")
                          /\ w.todo = <<>>]
    IN  CHOOSE r \in {Result(w) : w \in
            {Iterated(Round, Work(st, changes), MaxChanges)}} : TRUE

-----------------------------------------------------------------------------
(* The requests that client/listener makes.                                *)
makeNewUserRequest(node, name) ==
    <<Create(1), Set(1, Kind, "user"), Set(1, Name, name),
      Create(2), Set(2, Kind, "session"), Set(1, Attach(2), True),
      Set(2, Attach(node), True), Set(2, Transient, True)>>

makeNewGuestRequest(node, name) ==
    Append(makeNewUserRequest(node, name), Set(1, Transient, True))

makeNewSessionRequest(node, user) ==
    <<Create(1), Set(1, Kind, "session"), Set(user, Attach(1), True),
      Set(1, Attach(node), True), Set(1, Transient, True)>>

AttachRequest(node, session) == <<Set(session, Attach(node), True)>>

DetachRequest(node, session) == <<Set(session, Attach(node), NoValue)>>

DeleteRequest(user) == <<Delete(user)>>
=============================================================================
