-------------------------------- MODULE Com --------------------------------
(***************************************************************************)
(* Object lifetimes in the credential provider DLL (windows_provider.rs,   *)
(* class_factory.rs, provider.rs, credential.rs): reference counts, the    *)
(* count DllCanUnloadNow answers from, the one credential of a provider,   *)
(* and the flags a provider passes on to it.                               *)
(*                                                                         *)
(* The DLL is registered for apartments (otpuac.wxs:79), so an object is   *)
(* called by one thread only, the apartment that made it.  Apartments run  *)
(* side by side and share the allocator and DLL_REF_COUNT; the steps of a  *)
(* call are split where one of the two changes.  Calls that return an      *)
(* error before they change anything (null pointers, an unknown class or   *)
(* an index other than 0) are left out.                                    *)
(***************************************************************************)
EXTENDS Integers, FiniteSets

CONSTANTS
    Apartments,  \* the threads of the host
    Objects,     \* addresses an object may have, used again after a free
    Null,        \* the null pointer
    Flags,       \* values of cred_ui_flags; 0 is one of them
    MaxHeld,     \* bound: references the host holds on one object
    MaxLocks     \* bound: LockServer(TRUE) calls not yet undone

ASSUME ComAssumption ==
    /\ Null \notin Objects \cup Apartments
    /\ IsFiniteSet(Objects) /\ IsFiniteSet(Apartments)
    /\ 0 \in Flags
    /\ MaxHeld \in Nat /\ MaxLocks \in Nat

VARIABLES
    dllRefs,  \* DLL_REF_COUNT
    heap,     \* heap[o]: the object at address o
    held,     \* held[o]: references the host holds on it
    locks,    \* the host's server locks
    call      \* call[a]: the frame of the call that apartment a makes

vars == <<dllRefs, heap, held, locks, call>>

\* One record for the three structs: `slot' and `credUI' (usage_scenario is
\* CPUS_CREDUI) belong to Provider, `flags' (cred_ui_flags) to Provider and
\* Credential.  `home' is the apartment that made the object.
Structs == [kind : {"free", "factory", "provider", "credential"}, refs : Nat,
            home : Apartments \cup {Null}, slot : Objects \cup {Null},
            credUI : BOOLEAN, flags : Flags]

Freed == [kind |-> "free", refs |-> 0, home |-> Null, slot |-> Null,
          credUI |-> FALSE, flags |-> 0]

\* `this' is the object a call is made on or makes, `made' a credential it has
\* just allocated, `wanted' says that a pointer is to be returned, `out' is it.
Frames == [pc : {"idle", "count", "query", "sub", "subcred", "freecred", "uncountcred",
                 "free", "uncount", "countcred", "give", "return"},
           this : Objects \cup {Null}, made : Objects \cup {Null},
           wanted : BOOLEAN, out : Objects \cup {Null}]

NoCall == [pc |-> "idle", this |-> Null, made |-> Null, wanted |-> FALSE, out |-> Null]

TypeOK ==
    /\ dllRefs \in Nat /\ locks \in Nat
    /\ heap \in [Objects -> Structs]
    /\ held \in [Objects -> Nat]
    /\ call \in [Apartments -> Frames]

Init ==
    /\ dllRefs = 0 /\ locks = 0
    /\ heap = [o \in Objects |-> Freed]
    /\ held = [o \in Objects |-> 0]
    /\ call = [a \in Apartments |-> NoCall]
-----------------------------------------------------------------------------
Is(o, kind) == heap[o].kind = kind
Live == { o \in Objects : ~Is(o, "free") }

Quiet == \A a \in Apartments : call[a].pc = "idle"

At(a, step)   == call[a].pc = step
Goto(a, step) == call' = [call EXCEPT ![a].pc = step]

\* The host calls a method of an object of its own apartment that it holds a
\* reference on.
Calls(a, o, kind) ==
    /\ At(a, "idle")
    /\ Is(o, kind) /\ heap[o].home = a /\ held[o] > 0

\* Box::new with ref_count 1.
NewObject(a, kind)   == [Freed EXCEPT !.kind = kind, !.refs = 1, !.home = a]
NewCredential(a, f) == [NewObject(a, "credential") EXCEPT !.flags = f]

\* create_class_object and create_provider: allocate, count, query, release.
Construct(a, o, kind, known) ==
    /\ Is(o, "free")
    /\ heap' = [heap EXCEPT ![o] = NewObject(a, kind)]
    /\ call' = [call EXCEPT ![a] = [NoCall EXCEPT !.pc = "count", !.this = o, !.wanted = known]]
    /\ UNCHANGED <<dllRefs, held, locks>>

\* `known': the host asks for an interface the object has.
DllGetClassObject(a, o, known) ==
    /\ At(a, "idle")
    /\ Construct(a, o, "factory", known)

CreateInstance(a, f, o, known) ==
    /\ Calls(a, f, "factory")
    /\ Construct(a, o, "provider", known)

\* dll_add_ref() of a new factory or provider.
Count(a) ==
    /\ At(a, "count")
    /\ dllRefs' = dllRefs + 1
    /\ Goto(a, "query")
    /\ UNCHANGED <<heap, held, locks>>

\* query_interface on the new object, for the pointer the host gets.
Query(a) ==
    /\ At(a, "query")
    /\ IF call[a].wanted
       THEN /\ heap' = [heap EXCEPT ![call[a].this].refs = @ + 1]
            /\ call' = [call EXCEPT ![a].pc = "sub", ![a].out = call[a].this]
       ELSE Goto(a, "sub") /\ UNCHANGED heap
    /\ UNCHANGED <<dllRefs, held, locks>>

\* Mutant: a provider leaves its credential alone when it goes.
SubKeepCredential(a) ==
    LET o == call[a].this
    IN  /\ At(a, "sub")
        /\ heap' = [heap EXCEPT ![o].refs = @ - 1]
        /\ Goto(a, IF heap[o].refs # 1 THEN "return" ELSE "free")
        /\ UNCHANGED <<dllRefs, held, locks>>

\* release: the count drops; who takes it to 0 frees the object, a provider
\* after releasing its credential.
Sub(a) ==
    LET o == call[a].this
    IN  /\ At(a, "sub")
        /\ heap' = [heap EXCEPT ![o].refs = @ - 1]
        /\ Goto(a, IF heap[o].refs # 1 THEN "return"
                   ELSE IF heap[o].slot # Null THEN "subcred" ELSE "free")
        /\ UNCHANGED <<dllRefs, held, locks>>

\* credential_release from provider_release.
SubCredential(a) ==
    LET c == heap[call[a].this].slot
    IN  /\ At(a, "subcred")
        /\ heap' = [heap EXCEPT ![c].refs = @ - 1]
        /\ Goto(a, IF heap[c].refs = 1 THEN "freecred" ELSE "free")
        /\ UNCHANGED <<dllRefs, held, locks>>

FreeCredential(a) ==
    /\ At(a, "freecred")
    /\ heap' = [heap EXCEPT ![heap[call[a].this].slot] = Freed]
    /\ Goto(a, "uncountcred")
    /\ UNCHANGED <<dllRefs, held, locks>>

UncountCredential(a) ==
    /\ At(a, "uncountcred")
    /\ dllRefs' = dllRefs - 1
    /\ Goto(a, "free")
    /\ UNCHANGED <<heap, held, locks>>

\* drop(Box::from_raw(this)).
Free(a) ==
    /\ At(a, "free")
    /\ heap' = [heap EXCEPT ![call[a].this] = Freed]
    /\ Goto(a, "uncount")
    /\ UNCHANGED <<dllRefs, held, locks>>

\* dll_release().
Uncount(a) ==
    /\ At(a, "uncount")
    /\ dllRefs' = dllRefs - 1
    /\ Goto(a, "return")
    /\ UNCHANGED <<heap, held, locks>>

\* The call returns; with a pointer the host gets a reference.
Return(a) ==
    /\ At(a, "return")
    /\ held' = IF call[a].out = Null THEN held ELSE [held EXCEPT ![call[a].out] = @ + 1]
    /\ call' = [call EXCEPT ![a] = NoCall]
    /\ UNCHANGED <<dllRefs, heap, locks>>
-----------------------------------------------------------------------------
\* AddRef, and QueryInterface for an interface the object has.
AddRef(a, o) ==
    /\ \E kind \in {"factory", "provider", "credential"} : Calls(a, o, kind)
    /\ held[o] < MaxHeld
    /\ heap' = [heap EXCEPT ![o].refs = @ + 1]
    /\ held' = [held EXCEPT ![o] = @ + 1]
    /\ UNCHANGED <<dllRefs, locks, call>>

\* The host gives a reference back.
Release(a, o) ==
    /\ \E kind \in {"factory", "provider", "credential"} : Calls(a, o, kind)
    /\ held' = [held EXCEPT ![o] = @ - 1]
    /\ call' = [call EXCEPT ![a] = [NoCall EXCEPT !.pc = "sub", !.this = o]]
    /\ UNCHANGED <<dllRefs, heap, locks>>

LockServer(a, f, lock) ==
    /\ Calls(a, f, "factory")
    /\ IF lock
       THEN locks < MaxLocks /\ locks' = locks + 1 /\ dllRefs' = dllRefs + 1
       ELSE locks > 0 /\ locks' = locks - 1 /\ dllRefs' = dllRefs - 1
    /\ UNCHANGED <<heap, held, call>>
-----------------------------------------------------------------------------
\* Mutant: a credential is made on every call.
EnsureAnew(a, p, c, give, h) ==
    /\ Is(c, "free")
    /\ heap' = [h EXCEPT ![c] = NewCredential(a, h[p].flags)]
    /\ call' = [call EXCEPT ![a] = [NoCall EXCEPT !.pc = "countcred", !.this = p,
                                                  !.made = c, !.wanted = give]]

\* ensure_credential on the heap h: allocate a credential, at c, if provider p
\* has none.  `give': the caller goes on to hand it out.
Ensure(a, p, c, give, h) ==
    \/ /\ h[p].slot = Null
       /\ Is(c, "free")
       /\ heap' = [h EXCEPT ![c] = NewCredential(a, h[p].flags)]
       /\ call' = [call EXCEPT ![a] = [NoCall EXCEPT !.pc = "countcred", !.this = p,
                                                     !.made = c, !.wanted = give]]
    \/ /\ h[p].slot # Null
       /\ heap' = h
       /\ call' = [call EXCEPT ![a] = [NoCall EXCEPT !.pc = IF give THEN "give" ELSE "return",
                                                     !.this = p]]

\* Mutant: a credential is not counted.
StoreUncounted(a) ==
    /\ At(a, "countcred")
    /\ heap' = [heap EXCEPT ![call[a].this].slot = call[a].made]
    /\ call' = [call EXCEPT ![a].pc = IF call[a].wanted THEN "give" ELSE "return",
                            ![a].made = Null]
    /\ UNCHANGED <<dllRefs, held, locks>>

\* dll_add_ref() of the credential, which then goes into the provider.
CountCredential(a) ==
    /\ At(a, "countcred")
    /\ dllRefs' = dllRefs + 1
    /\ heap' = [heap EXCEPT ![call[a].this].slot = call[a].made]
    /\ call' = [call EXCEPT ![a].pc = IF call[a].wanted THEN "give" ELSE "return",
                            ![a].made = Null]
    /\ UNCHANGED <<held, locks>>

\* Mutant: the credential is handed out without a reference of its own.
GiveBorrowed(a) ==
    /\ At(a, "give")
    /\ call' = [call EXCEPT ![a].pc = "return", ![a].out = heap[call[a].this].slot]
    /\ UNCHANGED <<dllRefs, heap, held, locks>>

\* get_credential_at, second half: add_ref and return the pointer.
Give(a) ==
    LET c == heap[call[a].this].slot
    IN  /\ At(a, "give")
        /\ heap' = [heap EXCEPT ![c].refs = @ + 1]
        /\ call' = [call EXCEPT ![a].pc = "return", ![a].out = c]
        /\ UNCHANGED <<dllRefs, held, locks>>

\* Mutant: flags that arrive late do not reach the credential.
SetFlagsOnce(p, f) == [heap EXCEPT ![p].credUI = TRUE, ![p].flags = f]

\* The assignments of set_usage_scenario, to the provider and to the credential
\* it has.
SetFlags(p, f) ==
    [o \in Objects |->
        CASE o = p            -> [heap[o] EXCEPT !.credUI = TRUE, !.flags = f]
          [] o = heap[p].slot -> [heap[o] EXCEPT !.flags = f]
          [] OTHER            -> heap[o]]

\* SetUsageScenario(CPUS_CREDUI, f); any other scenario is refused and changes
\* nothing.
SetUsageScenario(a, p, c, f) ==
    /\ Calls(a, p, "provider")
    /\ Ensure(a, p, c, FALSE, SetFlags(p, f))
    /\ UNCHANGED <<dllRefs, held, locks>>

\* GetCredentialCount, which answers 0 and makes nothing unless the scenario
\* was accepted.
GetCredentialCount(a, p, c) ==
    /\ Calls(a, p, "provider")
    /\ heap[p].credUI
    /\ Ensure(a, p, c, FALSE, heap)
    /\ UNCHANGED <<dllRefs, held, locks>>

GetCredentialAt(a, p, c) ==
    /\ Calls(a, p, "provider")
    /\ heap[p].credUI
    /\ heap[p].slot # Null => held[heap[p].slot] < MaxHeld
    /\ Ensure(a, p, c, TRUE, heap)
    /\ UNCHANGED <<dllRefs, held, locks>>

\* What an apartment's call does next.
Step(a) ==
    \/ Count(a) \/ Query(a) \/ Sub(a) \/ SubCredential(a) \/ FreeCredential(a)
    \/ UncountCredential(a) \/ Free(a) \/ Uncount(a) \/ CountCredential(a)
    \/ Give(a) \/ Return(a)

\* The calls the host may make.
Host(a) ==
    \/ \E o \in Objects, known \in BOOLEAN : DllGetClassObject(a, o, known)
    \/ \E f, o \in Objects, known \in BOOLEAN : CreateInstance(a, f, o, known)
    \/ \E o \in Objects : AddRef(a, o) \/ Release(a, o)
    \/ \E f \in Objects, lock \in BOOLEAN : LockServer(a, f, lock)
    \/ \E p, c \in Objects, f \in Flags : SetUsageScenario(a, p, c, f)
    \/ \E p, c \in Objects : GetCredentialCount(a, p, c) \/ GetCredentialAt(a, p, c)

Next == \E a \in Apartments : Host(a) \/ Step(a)

Spec == Init /\ [][Next]_vars
-----------------------------------------------------------------------------
(* Properties. *)

\* DllCanUnloadNow() = S_OK.
CanUnload == dllRefs = 0

\* DllCanUnloadNow never answers S_OK, in the middle of whatever calls other
\* apartments make, while the host holds a pointer or a lock, or while a call
\* has an object in its hands that it has registered (windows_provider.rs:54-68).
LoadedWhileInUse ==
    CanUnload =>
        /\ locks = 0
        /\ \A o \in Objects : held[o] = 0
        /\ \A a \in Apartments : call[a].pc \in {"idle", "count", "return"}

\* The owners of the references on o: the host, a provider that has not released
\* its credential yet, and calls that are to release it, to store it or to
\* return it.
Owners(o) ==
    held[o]
    + Cardinality({ p \in Objects :
          /\ heap[p].slot = o
          /\ heap[p].refs > 0 \/ \E a \in Apartments : call[a].this = p /\ At(a, "subcred") })
    + Cardinality({ a \in Apartments :
          call[a].this = o /\ call[a].pc \in {"count", "query", "sub"} })
    + Cardinality({ a \in Apartments : call[a].made = o })
    + Cardinality({ a \in Apartments : call[a].out = o })

\* An object's count is the number of its owners, and nobody owns what has been
\* freed: no pointer dangles, also when the host keeps a credential longer than
\* its provider (provider.rs:144-156, credential.rs:159-171).
ReferencesCounted ==
    \A o \in Objects : heap[o].refs = Owners(o)

\* When the host has given everything back and no call is under way, every
\* object is gone and the DLL can be unloaded.
NothingLeaks ==
    Quiet /\ locks = 0 /\ (\A o \in Objects : held[o] = 0) => Live = {} /\ CanUnload

\* A credential packs with the flags its provider was given last, also when they
\* arrive after the host got the credential (provider.rs:193-198).
FlagsReachCredential ==
    \A p \in Live : heap[p].slot # Null /\ heap[p].refs > 0 =>
        heap[heap[p].slot].flags = heap[p].flags

\* As long as a provider lives it has the same credential, whichever calls ask
\* for it in whichever order (provider.rs:293-297).
OneCredential ==
    [][\A p \in Live :
          heap[p].slot # Null => heap'[p].slot = heap[p].slot \/ heap'[p] = Freed]_vars
=============================================================================
