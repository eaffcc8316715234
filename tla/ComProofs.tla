------------------------------ MODULE ComProofs ------------------------------
(***************************************************************************)
(* Theorems about Com, for any number of apartments and addresses.         *)
(***************************************************************************)
EXTENDS Com, FiniteSetTheorems, TLAPS

USE ComAssumption
-----------------------------------------------------------------------------
(* The inductive invariant, of each apartment by itself: an apartment only *)
(* touches the objects it made.                                            *)

Working == {"count", "query", "sub", "subcred", "freecred", "uncountcred", "free", "countcred", "give"}
Ending  == {"subcred", "freecred", "uncountcred", "free"}

This(a) == call[a].this
Made(a) == call[a].made
Out(a)  == call[a].out
Slot(p) == heap[p].slot

\* Apartment a is about to free o.
Ends(a, o) ==
    \/ This(a) = o /\ call[a].pc \in Ending
    \/ At(a, "freecred") /\ Slot(This(a)) = o

\* Provider p, of apartment a, still owns a reference on its credential.
Keeps(a, p) == heap[p].refs > 0 \/ (At(a, "subcred") /\ This(a) = p)

\* What the call under way in apartment a has in its hands.
FrameInv(a) ==
    /\ At(a, "idle") => call[a] = NoCall
    /\ call[a].pc \in Working => This(a) \in Objects /\ heap[This(a)].home = a
    /\ At(a, "count") => heap[This(a)].refs = 1
    /\ call[a].pc \in Ending => heap[This(a)].refs = 0
    /\ call[a].pc \in {"subcred", "freecred", "give"} => Slot(This(a)) # Null
    /\ At(a, "freecred") =>
          /\ Is(Slot(This(a)), "credential")
          /\ heap[Slot(This(a))].home = a /\ heap[Slot(This(a))].refs = 0
    /\ At(a, "countcred") =>
          /\ Is(This(a), "provider") /\ Slot(This(a)) = Null
          /\ Made(a) \in Objects /\ heap[Made(a)].home = a
          /\ Is(Made(a), "credential") /\ heap[Made(a)].refs = 1
          /\ heap[Made(a)].flags = heap[This(a)].flags
    /\ call[a].pc \in {"countcred", "give"} => held[This(a)] > 0
    /\ Made(a) # Null => At(a, "countcred")
    /\ Out(a) # Null =>
          /\ call[a].pc \in {"sub", "return"} /\ heap[Out(a)].home = a
          /\ At(a, "sub") => Out(a) = This(a)

\* An object that apartment a made, and the credential of a provider.
ObjectInv(a, o) ==
    /\ heap[o].refs = 0 => Ends(a, o)
    /\ Slot(o) # Null => Is(o, "provider")
    /\ Slot(o) # Null /\ Keeps(a, o) =>
          /\ Is(Slot(o), "credential")
          /\ heap[Slot(o)].home = a /\ heap[Slot(o)].flags = heap[o].flags

\* No two providers share a credential.
SlotsDiffer(a) ==
    \A p, q \in Objects :
        /\ heap[p].home = a /\ heap[q].home = a
        /\ Slot(p) # Null /\ Slot(p) = Slot(q) /\ Keeps(a, p) /\ Keeps(a, q)
        => p = q

ApartmentInv(a) ==
    /\ FrameInv(a) /\ SlotsDiffer(a)
    /\ \A o \in Objects : heap[o].home = a => ObjectInv(a, o)

HomeInv ==
    \A o \in Objects : IF Is(o, "free") THEN heap[o] = Freed ELSE heap[o].home \in Apartments

\* What dll_add_ref has counted and dll_release has not: the locks, the objects
\* but those just made, and the objects just freed.
New(a, o) == (At(a, "count") /\ This(a) = o) \/ Made(a) = o

Registered == { o \in Objects : ~Is(o, "free") /\ ~New(heap[o].home, o) }
Leaving    == { a \in Apartments : call[a].pc \in {"uncount", "uncountcred"} }

CountInv == dllRefs = locks + Cardinality(Registered) + Cardinality(Leaving)

IInv ==
    /\ TypeOK /\ HomeInv /\ ReferencesCounted /\ CountInv
    /\ \A a \in Apartments : ApartmentInv(a)
-----------------------------------------------------------------------------
(* Counting.                                                               *)

In(x, S) == IF x \in S THEN 1 ELSE 0

\* The cardinality of a set that gains or loses nothing but x.
LEMMA DiffersAt ==
  ASSUME NEW S, NEW A, NEW B, NEW x, IsFiniteSet(S), A \subseteq S, B \subseteq S,
         \A y \in S : y # x => (y \in A <=> y \in B)
  PROVE  /\ Cardinality(A) \in Nat /\ Cardinality(B) \in Nat
         /\ Cardinality(B) = Cardinality(A) - In(x, A) + In(x, B)
  <1>1. IsFiniteSet(A) /\ IsFiniteSet(B)
    BY FS_Subset
  <1>2. Cardinality(A) \in Nat /\ Cardinality(B) \in Nat
    BY <1>1, FS_CardinalityType
  <1>3. CASE x \in A <=> x \in B
    <2>1. A = B
      BY <1>3
    <2> QED
      BY <1>2, <2>1 DEF In
  <1>4. CASE x \in A /\ x \notin B
    <2>1. A = B \cup {x}
      BY <1>4
    <2>2. Cardinality(A) = Cardinality(B) + 1
      BY <1>1, <1>4, <2>1, FS_AddElement
    <2> QED
      BY <1>2, <1>4, <2>2 DEF In
  <1>5. CASE x \notin A /\ x \in B
    <2>1. B = A \cup {x}
      BY <1>5
    <2>2. Cardinality(B) = Cardinality(A) + 1
      BY <1>1, <1>5, <2>1, FS_AddElement
    <2> QED
      BY <1>2, <1>5, <2>2 DEF In
  <1> QED
    BY <1>3, <1>4, <1>5

\* A set with x in it counts for one at least.
LEMMA CountsFor ==
  ASSUME NEW S, NEW A, NEW x, IsFiniteSet(S), A \subseteq S
  PROVE  Cardinality(A) \in Nat /\ Cardinality(A) >= In(x, A)
  <1>1. IsFiniteSet(A) /\ Cardinality(A) \in Nat
    BY FS_Subset, FS_CardinalityType
  <1>2. x \in A => Cardinality(A) # 0
    BY <1>1, FS_EmptySet
  <1> QED
    BY <1>1, <1>2 DEF In

\* The owners that Owners(o) counts.
Owns(p) == heap[p].refs > 0 \/ \E a \in Apartments : call[a].this = p /\ At(a, "subcred")

Holders(o)   == { p \in Objects : heap[p].slot = o /\ Owns(p) }
Workers(o)   == { a \in Apartments : call[a].this = o /\ call[a].pc \in {"count", "query", "sub"} }
Makers(o)    == { a \in Apartments : call[a].made = o }
Returners(o) == { a \in Apartments : call[a].out = o }

\* The owners of o among the host, apartment a and provider p of that apartment.
Share(a, p, o) ==
    held[o] + (IF p \in Objects /\ Slot(p) = o /\ Keeps(a, p) THEN 1 ELSE 0)
            + (IF This(a) = o /\ call[a].pc \in {"count", "query", "sub"} THEN 1 ELSE 0)
            + (IF Made(a) = o THEN 1 ELSE 0) + (IF Out(a) = o THEN 1 ELSE 0)

LEMMA OwnersCount ==
  ASSUME NEW o
  PROVE  Owners(o) = held[o] + Cardinality(Holders(o)) + Cardinality(Workers(o))
                     + Cardinality(Makers(o)) + Cardinality(Returners(o))
  BY DEF Owners, Holders, Owns, Workers, Makers, Returners

\* Whoever has a share in o keeps its count up.
LEMMA Bound ==
  ASSUME IInv, NEW a \in Apartments, NEW p, NEW o \in Objects
  PROVE  heap[o].refs >= Share(a, p, o) /\ heap[o].refs \in Nat /\ held[o] \in Nat
  <1>1. /\ Cardinality(Holders(o)) \in Nat /\ Cardinality(Holders(o)) >= In(p, Holders(o))
        /\ Cardinality(Workers(o)) \in Nat /\ Cardinality(Workers(o)) >= In(a, Workers(o))
        /\ Cardinality(Makers(o)) \in Nat /\ Cardinality(Makers(o)) >= In(a, Makers(o))
        /\ Cardinality(Returners(o)) \in Nat
        /\ Cardinality(Returners(o)) >= In(a, Returners(o))
    <2>1. Holders(o) \subseteq Objects /\ Workers(o) \subseteq Apartments
          /\ Makers(o) \subseteq Apartments /\ Returners(o) \subseteq Apartments
      BY DEF Holders, Workers, Makers, Returners
    <2> QED
      BY <2>1, CountsFor
  <1>2. heap[o].refs = held[o] + Cardinality(Holders(o)) + Cardinality(Workers(o))
                       + Cardinality(Makers(o)) + Cardinality(Returners(o))
    BY OwnersCount DEF IInv, ReferencesCounted
  <1>3. held[o] \in Nat
    BY DEF IInv, TypeOK
  <1>4. p \in Objects /\ Slot(p) = o /\ Keeps(a, p) => In(p, Holders(o)) = 1
    BY DEF In, Holders, Owns, Keeps, This, Slot
  <1>5. This(a) = o /\ call[a].pc \in {"count", "query", "sub"} => In(a, Workers(o)) = 1
    BY DEF In, Workers, This
  <1>6. (Made(a) = o => In(a, Makers(o)) = 1) /\ (Out(a) = o => In(a, Returners(o)) = 1)
    BY DEF In, Makers, Made, Returners, Out
  <1>7. \A x, S : In(x, S) \in 0 .. 1
    BY DEF In
  <1> QED
    BY <1>1, <1>2, <1>3, <1>4, <1>5, <1>6, <1>7 DEF Share
-----------------------------------------------------------------------------
(* A step of one apartment.                                                *)

\* What a step of apartment a leaves alone: the other calls, and the objects of
\* the others.
OneApartment(a) ==
    /\ \A b \in Apartments \ {a} : call'[b] = call[b]
    /\ \A o \in Objects : heap[o].home \notin {a, Null} =>
          heap'[o] = heap[o] /\ held'[o] = held[o]
    /\ \A o \in Objects : heap[o].home \in {a, Null} => heap'[o].home \in {a, Null}

LEMMA OthersKept ==
  ASSUME TypeOK, NEW a \in Apartments, OneApartment(a),
         NEW b \in Apartments, b # a, ApartmentInv(b)
  PROVE  ApartmentInv(b)'
  <1> USE DEF TypeOK, OneApartment
  <1>1. call'[b] = call[b] /\ b # Null
    OBVIOUS
  <1>2. \A o \in Objects :
          /\ heap'[o].home = b <=> heap[o].home = b
          /\ heap[o].home = b => heap'[o] = heap[o] /\ held'[o] = held[o]
    BY <1>1
  <1>3. \A o \in Objects : Slot(o) \in Objects \cup {Null}
    BY DEF Structs, Slot
  <1>4. FrameInv(b)'
    <2>1. FrameInv(b) /\ call[b] \in Frames
      BY DEF ApartmentInv
    <2>2. This(b)' = This(b) /\ Made(b)' = Made(b) /\ Out(b)' = Out(b)
      BY <1>1 DEF This, Made, Out
    <2>3. call[b].pc \in Working => /\ This(b) \in Objects /\ heap[This(b)].home = b
                                   /\ heap'[This(b)] = heap[This(b)]
                                   /\ held'[This(b)] = held[This(b)]
      BY <1>2, <2>1 DEF FrameInv
    <2>4. At(b, "freecred") => /\ Slot(This(b)) \in Objects
                               /\ heap'[Slot(This(b))] = heap[Slot(This(b))]
      BY <1>2, <1>3, <2>1, <2>3 DEF FrameInv, At, Working
    <2>5. At(b, "countcred") => heap'[Made(b)] = heap[Made(b)]
      BY <1>2, <2>1 DEF FrameInv
    <2>6. Out(b) # Null => heap'[Out(b)] = heap[Out(b)]
      BY <1>2, <2>1 DEF FrameInv, Frames, Out
    <2> QED
      BY <1>1, <2>1, <2>2, <2>3, <2>4, <2>5, <2>6 DEF FrameInv, At, Is, Slot, Working, Ending
  <1>5. SlotsDiffer(b)'
    BY <1>1, <1>2 DEF ApartmentInv, SlotsDiffer, Keeps, At, This, Slot
  <1>6. \A o \in Objects : heap'[o].home = b => ObjectInv(b, o)'
    BY <1>1, <1>2, <1>3 DEF ApartmentInv, FrameInv, ObjectInv, Ends, Keeps, At, Is, This, Slot, Working, Ending
  <1> QED
    BY <1>4, <1>5, <1>6 DEF ApartmentInv

\* The owners of o that are calls change by apartment a alone, ...
LEMMA CallersDiffer ==
  ASSUME NEW a \in Apartments, NEW o, \A b \in Apartments \ {a} : call'[b] = call[b]
  PROVE  /\ Cardinality(Workers(o)) \in Nat /\ Cardinality(Workers(o)') \in Nat
         /\ Cardinality(Workers(o)') =
              Cardinality(Workers(o)) - In(a, Workers(o)) + In(a, Workers(o)')
         /\ Cardinality(Makers(o)) \in Nat /\ Cardinality(Makers(o)') \in Nat
         /\ Cardinality(Makers(o)') =
              Cardinality(Makers(o)) - In(a, Makers(o)) + In(a, Makers(o)')
         /\ Cardinality(Returners(o)) \in Nat /\ Cardinality(Returners(o)') \in Nat
         /\ Cardinality(Returners(o)') =
              Cardinality(Returners(o)) - In(a, Returners(o)) + In(a, Returners(o)')
  <1>1. /\ Workers(o) \subseteq Apartments /\ Workers(o)' \subseteq Apartments
        /\ \A b \in Apartments : b # a => (b \in Workers(o) <=> b \in Workers(o)')
    BY DEF Workers
  <1>2. /\ Makers(o) \subseteq Apartments /\ Makers(o)' \subseteq Apartments
        /\ \A b \in Apartments : b # a => (b \in Makers(o) <=> b \in Makers(o)')
    BY DEF Makers
  <1>3. /\ Returners(o) \subseteq Apartments /\ Returners(o)' \subseteq Apartments
        /\ \A b \in Apartments : b # a => (b \in Returners(o) <=> b \in Returners(o)')
    BY DEF Returners
  <1>4. IsFiniteSet(Apartments)
    OBVIOUS
  <1>5. /\ Cardinality(Workers(o)) \in Nat /\ Cardinality(Workers(o)') \in Nat
        /\ Cardinality(Workers(o)') =
             Cardinality(Workers(o)) - In(a, Workers(o)) + In(a, Workers(o)')
    BY <1>1, <1>4, DiffersAt
  <1>6. /\ Cardinality(Makers(o)) \in Nat /\ Cardinality(Makers(o)') \in Nat
        /\ Cardinality(Makers(o)') =
             Cardinality(Makers(o)) - In(a, Makers(o)) + In(a, Makers(o)')
    BY <1>2, <1>4, DiffersAt
  <1>7. /\ Cardinality(Returners(o)) \in Nat /\ Cardinality(Returners(o)') \in Nat
        /\ Cardinality(Returners(o)') =
             Cardinality(Returners(o)) - In(a, Returners(o)) + In(a, Returners(o)')
    BY <1>3, <1>4, DiffersAt
  <1> QED
    BY <1>5, <1>6, <1>7

\* ... and those that are providers by the one that the call is about.
LEMMA HoldersDiffer ==
  ASSUME NEW a \in Apartments, NEW p, NEW o,
         \A b \in Apartments \ {a} : call'[b] = call[b],
         At(a, "subcred") => This(a) = p, At(a, "subcred")' => This(a)' = p,
         o # Null,
         \A q \in Objects \ {p} :
            /\ heap'[q].slot = heap[q].slot
            /\ heap[q].slot # Null => (heap'[q].refs > 0 <=> heap[q].refs > 0)
  PROVE  /\ Cardinality(Holders(o)) \in Nat /\ Cardinality(Holders(o)') \in Nat
         /\ Cardinality(Holders(o)') =
              Cardinality(Holders(o)) - In(p, Holders(o)) + In(p, Holders(o)')
  <1>1. Holders(o) \subseteq Objects /\ Holders(o)' \subseteq Objects
    BY DEF Holders
  <1>2. ASSUME NEW q \in Objects, q # p
        PROVE  (\E b \in Apartments : call[b].this = q /\ At(b, "subcred"))
               <=> \E b \in Apartments : call'[b].this = q /\ At(b, "subcred")'
    BY <1>2 DEF At, This
  <1>3. \A q \in Objects : q # p => (q \in Holders(o) <=> q \in Holders(o)')
    BY <1>2 DEF Holders, Owns
  <1>4. IsFiniteSet(Objects)
    OBVIOUS
  <1> QED
    BY <1>1, <1>3, <1>4, DiffersAt

\* A step of apartment a changes no provider's hold on its credential but p's.
OneHolder(a, p) ==
    /\ p \in Objects => heap[p].home \in {a, Null}
    /\ \A q \in Objects \ {p} :
          /\ heap'[q].slot = heap[q].slot
          /\ heap[q].slot # Null => (heap'[q].refs > 0 <=> heap[q].refs > 0)
    /\ At(a, "subcred") => This(a) = p
    /\ At(a, "subcred")' => This(a)' = p

\* The references stay balanced when, of each object, the count and the share of
\* the two who take part change alike.
LEMMA Balance ==
  ASSUME IInv, TypeOK', NEW a \in Apartments, NEW p, OneApartment(a), OneHolder(a, p),
         \A o \in Objects :
            heap'[o].refs - Share(a, p, o)' = heap[o].refs - Share(a, p, o)
  PROVE  ReferencesCounted'
  <1> SUFFICES ASSUME NEW o \in Objects PROVE heap'[o].refs = Owners(o)'
    BY DEF ReferencesCounted
  <1>0. \A b \in Apartments \ {a} : call'[b] = call[b]
    BY DEF OneApartment
  <1>1. /\ Cardinality(Workers(o)) \in Nat /\ Cardinality(Workers(o)') \in Nat
        /\ Cardinality(Workers(o)') =
             Cardinality(Workers(o)) - In(a, Workers(o)) + In(a, Workers(o)')
    BY <1>0, CallersDiffer
  <1>2. /\ Cardinality(Makers(o)) \in Nat /\ Cardinality(Makers(o)') \in Nat
        /\ Cardinality(Makers(o)') =
             Cardinality(Makers(o)) - In(a, Makers(o)) + In(a, Makers(o)')
    BY <1>0, CallersDiffer
  <1>3. /\ Cardinality(Returners(o)) \in Nat /\ Cardinality(Returners(o)') \in Nat
        /\ Cardinality(Returners(o)') =
             Cardinality(Returners(o)) - In(a, Returners(o)) + In(a, Returners(o)')
    BY <1>0, CallersDiffer
  <1>4. /\ Cardinality(Holders(o)) \in Nat /\ Cardinality(Holders(o)') \in Nat
        /\ Cardinality(Holders(o)') =
             Cardinality(Holders(o)) - In(p, Holders(o)) + In(p, Holders(o)')
    BY <1>0, HoldersDiffer DEF OneHolder
  <1>5. heap[o].refs = held[o] + Cardinality(Holders(o)) + Cardinality(Workers(o))
                       + Cardinality(Makers(o)) + Cardinality(Returners(o))
    BY OwnersCount DEF IInv, ReferencesCounted
  <1>6. Owners(o)' = held'[o] + Cardinality(Holders(o)') + Cardinality(Workers(o)')
                     + Cardinality(Makers(o)') + Cardinality(Returners(o)')
    BY DEF Owners, Holders, Owns, Workers, Makers, Returners
  <1>7. held[o] \in Nat /\ held'[o] \in Nat /\ heap[o].refs \in Nat /\ heap'[o].refs \in Nat
    BY DEF IInv, TypeOK, Structs
  <1>8. heap'[o].refs - Share(a, p, o)' = heap[o].refs - Share(a, p, o)
    OBVIOUS
  <1>9. p \in Objects => \A b \in Apartments \ {a} : ~(call[b].this = p /\ At(b, "subcred"))
    BY DEF IInv, ApartmentInv, FrameInv, At, This, Working, OneHolder
  <1>10. /\ In(p, Holders(o)) = IF p \in Objects /\ Slot(p) = o /\ Keeps(a, p) THEN 1 ELSE 0
         /\ In(p, Holders(o)') = IF p \in Objects /\ Slot(p)' = o /\ Keeps(a, p)' THEN 1 ELSE 0
    BY <1>0, <1>9 DEF In, Holders, Owns, Keeps, Slot, This, At
  <1>11. /\ In(a, Workers(o)) =
              IF This(a) = o /\ call[a].pc \in {"count", "query", "sub"} THEN 1 ELSE 0
         /\ In(a, Workers(o)') =
              IF This(a)' = o /\ call'[a].pc \in {"count", "query", "sub"} THEN 1 ELSE 0
    BY DEF In, Workers, This
  <1>12. /\ In(a, Makers(o)) = IF Made(a) = o THEN 1 ELSE 0
         /\ In(a, Makers(o)') = IF Made(a)' = o THEN 1 ELSE 0
         /\ In(a, Returners(o)) = IF Out(a) = o THEN 1 ELSE 0
         /\ In(a, Returners(o)') = IF Out(a)' = o THEN 1 ELSE 0
    BY DEF In, Makers, Made, Returners, Out
  <1>13. /\ Share(a, p, o) = held[o] + In(p, Holders(o)) + In(a, Workers(o))
                             + In(a, Makers(o)) + In(a, Returners(o))
         /\ Share(a, p, o)' = held'[o] + In(p, Holders(o)') + In(a, Workers(o)')
                              + In(a, Makers(o)') + In(a, Returners(o)')
    BY <1>10, <1>11, <1>12 DEF Share
  <1>14. /\ In(p, Holders(o)) \in Nat /\ In(p, Holders(o)') \in Nat
         /\ In(a, Workers(o)) \in Nat /\ In(a, Workers(o)') \in Nat
         /\ In(a, Makers(o)) \in Nat /\ In(a, Makers(o)') \in Nat
         /\ In(a, Returners(o)) \in Nat /\ In(a, Returners(o)') \in Nat
    BY DEF In
  <1>15. Share(a, p, o) \in Int /\ Share(a, p, o)' \in Int
    BY <1>7, <1>13, <1>14
  <1>16. Owners(o)' = heap[o].refs + Share(a, p, o)' - Share(a, p, o)
    <2> DEFINE Calls1 == Cardinality(Workers(o)) + Cardinality(Makers(o)) + Cardinality(Returners(o))
               Calls2 == Cardinality(Workers(o)') + Cardinality(Makers(o)') + Cardinality(Returners(o)')
               Part1  == In(a, Workers(o)) + In(a, Makers(o)) + In(a, Returners(o))
               Part2  == In(a, Workers(o)') + In(a, Makers(o)') + In(a, Returners(o)')
    <2>1. Calls1 \in Int /\ Calls2 \in Int /\ Part1 \in Int /\ Part2 \in Int
      BY <1>1, <1>2, <1>3, <1>14
    <2>2. Calls2 = Calls1 - Part1 + Part2
      BY <1>1, <1>2, <1>3, <1>14
    <2>3. /\ heap[o].refs = held[o] + Cardinality(Holders(o)) + Calls1
          /\ Owners(o)' = held'[o] + Cardinality(Holders(o)') + Calls2
      BY <1>1, <1>2, <1>3, <1>4, <1>5, <1>6, <1>7
    <2>4. /\ Share(a, p, o) = held[o] + In(p, Holders(o)) + Part1
          /\ Share(a, p, o)' = held'[o] + In(p, Holders(o)') + Part2
      BY <1>7, <1>13, <1>14
    <2> HIDE DEF Calls1, Calls2, Part1, Part2
    <2> QED
      BY <1>4, <1>7, <1>14, <2>1, <2>2, <2>3, <2>4
  <1> QED
    BY <1>7, <1>8, <1>15, <1>16

\* The same for DLL_REF_COUNT, at the one object that is registered or freed.
LEMMA RegisteredDiffer ==
  ASSUME NEW a \in Apartments, NEW o, \A b \in Apartments \ {a} : call'[b] = call[b],
         \A q \in Objects : q # o => (q \in Registered <=> q \in Registered')
  PROVE  /\ Cardinality(Registered) \in Nat /\ Cardinality(Registered') \in Nat
         /\ Cardinality(Registered') =
              Cardinality(Registered) - In(o, Registered) + In(o, Registered')
         /\ Cardinality(Leaving) \in Nat /\ Cardinality(Leaving') \in Nat
         /\ Cardinality(Leaving') =
              Cardinality(Leaving) - In(a, Leaving) + In(a, Leaving')
  <1>1. Registered \subseteq Objects /\ Registered' \subseteq Objects
    BY DEF Registered
  <1>2. Leaving \subseteq Apartments /\ Leaving' \subseteq Apartments
    BY DEF Leaving
  <1>3. \A b \in Apartments : b # a => (b \in Leaving <=> b \in Leaving')
    BY DEF Leaving
  <1>4. IsFiniteSet(Objects) /\ IsFiniteSet(Apartments)
    OBVIOUS
  <1>5. /\ Cardinality(Registered) \in Nat /\ Cardinality(Registered') \in Nat
        /\ Cardinality(Registered') =
             Cardinality(Registered) - In(o, Registered) + In(o, Registered')
    BY <1>1, <1>4, DiffersAt
  <1>6. /\ Cardinality(Leaving) \in Nat /\ Cardinality(Leaving') \in Nat
        /\ Cardinality(Leaving') =
             Cardinality(Leaving) - In(a, Leaving) + In(a, Leaving')
    BY <1>2, <1>3, <1>4, DiffersAt
  <1> QED
    BY <1>5, <1>6

LEMMA CountBalance ==
  ASSUME IInv, TypeOK', NEW a \in Apartments, NEW o, OneApartment(a),
         \A q \in Objects : q # o => (q \in Registered <=> q \in Registered'),
         dllRefs' - locks' - In(o, Registered') - In(a, Leaving')
           = dllRefs - locks - In(o, Registered) - In(a, Leaving)
  PROVE  CountInv'
  <1>0. \A b \in Apartments \ {a} : call'[b] = call[b]
    BY DEF OneApartment
  <1>1. /\ Cardinality(Registered) \in Nat /\ Cardinality(Registered') \in Nat
        /\ Cardinality(Registered') =
             Cardinality(Registered) - In(o, Registered) + In(o, Registered')
    BY <1>0, RegisteredDiffer
  <1>2. /\ Cardinality(Leaving) \in Nat /\ Cardinality(Leaving') \in Nat
        /\ Cardinality(Leaving') =
             Cardinality(Leaving) - In(a, Leaving) + In(a, Leaving')
    BY <1>0, RegisteredDiffer
  <1>3. In(o, Registered) \in Nat /\ In(o, Registered') \in Nat
        /\ In(a, Leaving) \in Nat /\ In(a, Leaving') \in Nat
    BY DEF In
  <1> QED
    BY <1>1, <1>2, <1>3 DEF IInv, CountInv, TypeOK

\* Whoever is about to uncount an object has been counted.
LEMMA LeavingCounts ==
  ASSUME IInv, NEW a \in Leaving
  PROVE  dllRefs \in Nat /\ dllRefs >= 1
  <1>1. Leaving \subseteq Apartments /\ Registered \subseteq Objects
    BY DEF Leaving, Registered
  <1>2. Cardinality(Leaving) \in Nat /\ Cardinality(Leaving) >= In(a, Leaving)
    BY <1>1, CountsFor
  <1>3. Cardinality(Registered) \in Nat
    BY <1>1, CountsFor
  <1> QED
    BY <1>2, <1>3 DEF IInv, TypeOK, CountInv, In
-----------------------------------------------------------------------------
(* Each action keeps the invariant.                                        *)

\* What is to be shown of a step of apartment a.
Kept(a) ==
    /\ TypeOK' /\ HomeInv' /\ ReferencesCounted' /\ CountInv'
    /\ OneApartment(a) /\ ApartmentInv(a)'

LEMMA KeptSuffices ==
  ASSUME IInv, NEW a \in Apartments, Kept(a)
  PROVE  IInv'
  <1>1. \A b \in Apartments \ {a} : ApartmentInv(b)'
    BY OthersKept DEF IInv, Kept
  <1> QED
    BY <1>1 DEF IInv, Kept

\* What a call that is under way has to do with its object.
LEMMA InHand ==
  ASSUME IInv, NEW a \in Apartments, call[a].pc \in Working
  PROVE  /\ This(a) \in Objects /\ heap[This(a)].home = a /\ ~Is(This(a), "free")
         /\ heap[This(a)] \in Structs /\ call[a] \in Frames /\ a # Null
         /\ FrameInv(a) /\ ObjectInv(a, This(a)) /\ Slot(This(a)) \in Objects \cup {Null}
         /\ Made(a) # Null => At(a, "countcred")
         /\ Out(a) # Null => At(a, "sub") /\ Out(a) = This(a)
  <1>1. TypeOK /\ HomeInv /\ ApartmentInv(a)
    BY DEF IInv
  <1>2. This(a) \in Objects /\ heap[This(a)].home = a /\ a # Null
    BY <1>1 DEF ApartmentInv, FrameInv
  <1>3. ~Is(This(a), "free")
    BY <1>1, <1>2 DEF HomeInv, Freed, Is
  <1>4. heap[This(a)] \in Structs /\ call[a] \in Frames
    BY <1>1, <1>2 DEF TypeOK
  <1>5. FrameInv(a) /\ ObjectInv(a, This(a))
    BY <1>1, <1>2 DEF ApartmentInv
  <1>6. Slot(This(a)) \in Objects \cup {Null}
    BY <1>4 DEF Structs, Slot
  <1>7. /\ Made(a) # Null => At(a, "countcred")
        /\ Out(a) # Null => At(a, "sub") /\ Out(a) = This(a)
    BY <1>5 DEF FrameInv, Working, At
  <1> QED
    BY <1>2, <1>3, <1>4, <1>5, <1>6, <1>7

\* What the objects of apartment a need when only counts and calls change.
LEMMA ShapeKept ==
  ASSUME IInv, NEW a \in Apartments,
         \A q \in Objects :
            /\ heap'[q].kind = heap[q].kind /\ heap'[q].home = heap[q].home
            /\ heap'[q].slot = heap[q].slot /\ heap'[q].flags = heap[q].flags,
         \A q \in Objects :
            heap[q].home = a =>
               /\ Slot(q) # Null /\ Keeps(a, q)' => Keeps(a, q)
               /\ heap'[q].refs = 0 => Ends(a, q)',
         FrameInv(a)'
  PROVE  ApartmentInv(a)'
  <1>1. TypeOK /\ ApartmentInv(a)
    BY DEF IInv
  <1>2. \A q \in Objects : Slot(q)' = Slot(q) /\ Slot(q) \in Objects \cup {Null}
    BY <1>1 DEF TypeOK, Structs, Slot
  <1>3. SlotsDiffer(a)'
    BY <1>1, <1>2 DEF ApartmentInv, SlotsDiffer
  <1>4. ASSUME NEW q \in Objects, heap'[q].home = a PROVE ObjectInv(a, q)'
    <2>1. ObjectInv(a, q)
      BY <1>1, <1>4 DEF ApartmentInv
    <2>2. Slot(q)' # Null => Is(q, "provider")'
      BY <1>2, <2>1 DEF ObjectInv, Is
    <2>3. Slot(q)' # Null /\ Keeps(a, q)' =>
            /\ Is(Slot(q), "credential")'
            /\ (heap[Slot(q)].home)' = a /\ (heap[Slot(q)].flags)' = (heap[q].flags)'
      BY <1>2, <1>4, <2>1 DEF ObjectInv, Is
    <2> QED
      BY <1>4, <2>2, <2>3 DEF ObjectInv
  <1> QED
    BY <1>3, <1>4 DEF ApartmentInv

LEMMA CountKeeps ==
  ASSUME IInv, NEW a \in Apartments, Count(a)
  PROVE  Kept(a)
  <1>0. TypeOK /\ HomeInv /\ ApartmentInv(a)
    BY DEF IInv
  <1>1. call[a].pc = "count"
    BY DEF Count, At
  <1>2. PICK o \in Objects :
        /\ o = This(a) /\ heap[o].home = a /\ ~Is(o, "free") /\ call[a] \in Frames
        /\ Made(a) = Null /\ Out(a) = Null /\ heap[o].refs = 1
    BY <1>1, InHand DEF Working, At, FrameInv
  <1>3. /\ dllRefs' = dllRefs + 1 /\ UNCHANGED <<heap, held, locks>>
        /\ call' = [call EXCEPT ![a].pc = "query"]
    BY DEF Count, Goto
  <1>4. TypeOK'
    BY <1>0, <1>2, <1>3 DEF TypeOK, Frames
  <1>5. OneApartment(a)
    BY <1>0, <1>3 DEF OneApartment, TypeOK
  <1>6. HomeInv'
    BY <1>0, <1>3 DEF HomeInv, Is
  <1>7. ReferencesCounted'
    <2>1. \A q \in Objects : heap'[q].refs - Share(a, o, q)' = heap[q].refs - Share(a, o, q)
      BY <1>0, <1>1, <1>3 DEF Share, Keeps, At, This, Made, Out, Slot, TypeOK
    <2>2. OneHolder(a, o)
      BY <1>0, <1>1, <1>2, <1>3 DEF OneHolder, At, This, TypeOK
    <2> QED
      BY <1>2, <1>4, <1>5, <2>1, <2>2, Balance
  <1>8. CountInv'
    <2>1. \A q \in Objects : q # o => (q \in Registered <=> q \in Registered')
      BY <1>0, <1>1, <1>2, <1>3 DEF Registered, New, HomeInv, Is, At, This, Made, TypeOK
    <2>2. o \notin Registered /\ o \in Registered'
      <3>1. call'[a].pc = "query" /\ Made(a)' = Null /\ o # Null
        BY <1>0, <1>2, <1>3 DEF Made, TypeOK
      <3>2. New(a, o) /\ ~New(a, o)'
        BY <1>1, <1>2, <3>1 DEF New, At
      <3> QED
        BY <1>2, <1>3, <3>2 DEF Registered, Is
    <2>3. a \notin Leaving /\ a \notin Leaving'
      BY <1>0, <1>1, <1>3 DEF Leaving, TypeOK
    <2> QED
      BY <1>0, <1>2, <1>3, <1>4, <1>5, <2>1, <2>2, <2>3, CountBalance DEF In, TypeOK
  <1>9. ApartmentInv(a)'
    <2>1. FrameInv(a)'
      BY <1>0, <1>1, <1>2, <1>3 DEF ApartmentInv, FrameInv, At, This, Made, Out, Working, Ending, TypeOK
    <2>2. SlotsDiffer(a)'
      BY <1>0, <1>1, <1>3 DEF ApartmentInv, SlotsDiffer, Keeps, At, This, Slot, TypeOK
    <2>3. \A q \in Objects : heap'[q].home = a => ObjectInv(a, q)'
      BY <1>0, <1>1, <1>3 DEF ApartmentInv, ObjectInv, Ends, Keeps, At, Is, This, Slot, Ending, TypeOK
    <2> QED
      BY <2>1, <2>2, <2>3 DEF ApartmentInv
  <1> QED
    BY <1>4, <1>5, <1>6, <1>7, <1>8, <1>9 DEF Kept

LEMMA QueryKeeps ==
  ASSUME IInv, NEW a \in Apartments, Query(a)
  PROVE  Kept(a)
  <1>0. TypeOK /\ HomeInv /\ ApartmentInv(a)
    BY DEF IInv
  <1>1. call[a].pc = "query"
    BY DEF Query, At
  <1>2. PICK o \in Objects :
        /\ o = This(a) /\ heap[o].home = a /\ ~Is(o, "free") /\ call[a] \in Frames
        /\ Made(a) = Null /\ Out(a) = Null /\ heap[o] \in Structs
    BY <1>1, InHand DEF Working, At
  <1>3. UNCHANGED <<dllRefs, held, locks>>
    BY DEF Query
  <1>4. \/ /\ heap' = [heap EXCEPT ![o].refs = @ + 1]
           /\ call' = [call EXCEPT ![a].pc = "sub", ![a].out = o]
        \/ heap' = heap /\ call' = [call EXCEPT ![a].pc = "sub"]
    BY <1>2 DEF Query, Goto, This
  <1>5. \A q \in Objects :
          /\ q # o => heap'[q] = heap[q]
          /\ heap'[q].kind = heap[q].kind /\ heap'[q].home = heap[q].home
          /\ heap'[q].slot = heap[q].slot /\ heap'[q].flags = heap[q].flags
    BY <1>0, <1>4 DEF TypeOK, Structs
  <1>a. /\ call'[a].pc = "sub" /\ call'[a].this = o /\ call'[a].made = Null
        /\ \/ call'[a].out = Null /\ heap'[o].refs = heap[o].refs
           \/ call'[a].out = o /\ heap'[o].refs = heap[o].refs + 1
        /\ \A b \in Apartments : b # a => call'[b] = call[b]
    <2>1. CASE heap' = heap /\ call' = [call EXCEPT ![a].pc = "sub"]
      BY <1>0, <1>2, <2>1 DEF TypeOK, Frames, This, Made, Out
    <2>2. CASE /\ heap' = [heap EXCEPT ![o].refs = @ + 1]
               /\ call' = [call EXCEPT ![a].pc = "sub", ![a].out = o]
      BY <1>0, <1>2, <2>2 DEF TypeOK, Frames, Structs, This, Made
    <2> QED
      BY <1>4, <2>1, <2>2
  <1>6. heap[o].refs \in Nat /\ heap[o].refs >= 1 /\ heap'[o].refs \in Nat /\ heap'[o].refs >= 1
    <2>1. heap[o].refs >= Share(a, o, o) /\ heap[o].refs \in Nat /\ held[o] \in Nat
      BY Bound
    <2>2. heap[o].refs >= 1
      BY <1>1, <1>2, <2>1 DEF Share, This
    <2> QED
      BY <1>0, <1>4, <2>1, <2>2 DEF TypeOK, Structs
  <1>7. TypeOK'
    <2>1. [heap[o] EXCEPT !.refs = @ + 1] \in Structs
      BY <1>2, <1>6 DEF Structs
    <2>2. /\ [call[a] EXCEPT !.pc = "sub"] \in Frames
          /\ [call[a] EXCEPT !.pc = "sub", !.out = o] \in Frames
      BY <1>2 DEF Frames
    <2>3. heap' \in [Objects -> Structs]
      BY <1>0, <1>4, <2>1 DEF TypeOK
    <2>4. call' \in [Apartments -> Frames]
      BY <1>0, <1>4, <2>2 DEF TypeOK
    <2> QED
      BY <1>0, <1>3, <2>3, <2>4 DEF TypeOK
  <1>8. OneApartment(a)
    BY <1>0, <1>2, <1>3, <1>4, <1>5 DEF OneApartment, TypeOK
  <1>9. HomeInv'
    BY <1>0, <1>2, <1>5 DEF HomeInv, Is
  <1>10. ReferencesCounted'
    <2>3. /\ Keeps(a, o) /\ Keeps(a, o)' /\ Slot(o)' = Slot(o)
          /\ This(a)' = o /\ call'[a].pc = "sub" /\ Made(a)' = Null
      BY <1>2, <1>a, <1>5, <1>6 DEF Keeps, Slot, This, Made
    <2>4. \/ Out(a)' = Null /\ heap'[o].refs = heap[o].refs
          \/ Out(a)' = o /\ heap'[o].refs = heap[o].refs + 1
      BY <1>a DEF Out
    <2>5. \A q \in Objects : heap[q].refs \in Nat /\ held[q] \in Nat /\ q # Null
      BY <1>0 DEF TypeOK, Structs
    <2>1. \A q \in Objects : heap'[q].refs - Share(a, o, q)' = heap[q].refs - Share(a, o, q)
      BY <1>1, <1>2, <1>3, <1>5, <2>3, <2>4, <2>5 DEF Share
    <2>2. OneHolder(a, o)
      BY <1>1, <1>2, <1>a, <1>5 DEF OneHolder, At, This
    <2> QED
      BY <1>2, <1>7, <1>8, <2>1, <2>2, Balance
  <1>11. CountInv'
    <2>1. \A q \in Objects : q \in Registered <=> q \in Registered'
      BY <1>0, <1>1, <1>2, <1>a, <1>5 DEF Registered, New, HomeInv, Is, At, This, Made
    <2>2. a \notin Leaving /\ a \notin Leaving'
      BY <1>1, <1>a DEF Leaving
    <2> QED
      BY <1>0, <1>2, <1>3, <1>7, <1>8, <2>1, <2>2, CountBalance DEF In, TypeOK
  <1>12. ApartmentInv(a)'
    <2>1. FrameInv(a)'
      <3>1. heap'[o].home = a
        BY <1>2, <1>5
      <3>2. (call'[a].out = Null \/ call'[a].out = o) /\ o \in Objects
        BY <1>a
      <3>3. /\ At(a, "sub")' /\ This(a)' = o /\ Made(a)' = Null
            /\ Out(a)' # Null => Out(a)' = o
        BY <1>a, <3>2 DEF At, This, Made, Out
      <3> QED
        BY <3>1, <3>2, <3>3 DEF FrameInv, At, Working, Ending
    <2>2. SlotsDiffer(a)'
      BY <1>0, <1>1, <1>2, <1>a, <1>5, <1>6 DEF ApartmentInv, SlotsDiffer, Keeps, At, This, Slot
    <2>3. \A q \in Objects : heap'[q].home = a => ObjectInv(a, q)'
      <3> SUFFICES ASSUME NEW q \in Objects, heap'[q].home = a PROVE ObjectInv(a, q)'
        OBVIOUS
      <3>1. ObjectInv(a, q) /\ heap[q].home = a /\ ~Ends(a, q)
        BY <1>0, <1>1, <1>5 DEF ApartmentInv, Ends, At, Ending
      <3>2. heap[q].refs > 0 /\ heap'[q].refs > 0 /\ heap'[q].refs # 0
        <4>1. heap[q].refs \in Nat /\ heap[q].refs # 0
          BY <1>0, <3>1 DEF ObjectInv, TypeOK, Structs
        <4> QED
          BY <4>1, <1>5, <1>6
      <3>3. Slot(q) # Null => /\ Slot(q) \in Objects
                             /\ Is(Slot(q), "credential") /\ heap[Slot(q)].home = a
                             /\ heap[Slot(q)].flags = heap[q].flags
        BY <1>0, <3>1, <3>2 DEF ObjectInv, Keeps, Slot, TypeOK, Structs
      <3>4. Slot(q)' = Slot(q) /\ (Is(q, "provider") => Is(q, "provider")')
        BY <1>5 DEF Slot, Is
      <3> QED
        BY <1>5, <3>1, <3>2, <3>3, <3>4 DEF ObjectInv, Is
    <2> QED
      BY <2>1, <2>2, <2>3 DEF ApartmentInv
  <1> QED
    BY <1>7, <1>8, <1>9, <1>10, <1>11, <1>12 DEF Kept

LEMMA SubKeeps ==
  ASSUME IInv, NEW a \in Apartments, Sub(a)
  PROVE  Kept(a)
  <1>0. TypeOK /\ HomeInv /\ ApartmentInv(a)
    BY DEF IInv
  <1>1. call[a].pc = "sub"
    BY DEF Sub, At
  <1>2. PICK o \in Objects :
        /\ o = This(a) /\ heap[o].home = a /\ ~Is(o, "free") /\ call[a] \in Frames
        /\ Made(a) = Null /\ Out(a) \in {Null, o} /\ heap[o] \in Structs
    BY <1>1, InHand DEF Working, At
  <1>3. PICK step \in {"return", "subcred", "free"} :
        /\ UNCHANGED <<dllRefs, held, locks>>
        /\ heap' = [heap EXCEPT ![o].refs = @ - 1]
        /\ call' = [call EXCEPT ![a].pc = step]
        /\ step = IF heap[o].refs # 1 THEN "return" ELSE IF heap[o].slot # Null THEN "subcred" ELSE "free"
    BY <1>2 DEF Sub, Goto, This
  <1>4. /\ heap[o].refs \in Nat /\ heap[o].refs >= 1 /\ heap'[o].refs = heap[o].refs - 1
        /\ step # "return" => Out(a) = Null
    <2>1. heap[o].refs >= Share(a, o, o) /\ heap[o].refs \in Nat /\ held[o] \in Nat
      BY Bound
    <2>2. heap[o].refs >= 1 /\ (Out(a) = o => heap[o].refs >= 2)
      BY <1>1, <1>2, <2>1 DEF Share, This
    <2>3. heap'[o].refs = heap[o].refs - 1
      BY <1>0, <1>2, <1>3 DEF TypeOK, Structs
    <2> QED
      BY <1>2, <1>3, <2>1, <2>2, <2>3
  <1>5. \A q \in Objects :
          /\ q # o => heap'[q] = heap[q]
          /\ heap'[q].kind = heap[q].kind /\ heap'[q].home = heap[q].home
          /\ heap'[q].slot = heap[q].slot /\ heap'[q].flags = heap[q].flags
    BY <1>0, <1>3 DEF TypeOK, Structs
  <1>6. /\ This(a)' = o /\ call'[a].pc = step /\ Made(a)' = Null /\ Out(a)' = Out(a)
        /\ \A b \in Apartments \ {a} : call'[b] = call[b]
    BY <1>0, <1>2, <1>3 DEF This, Made, Out, TypeOK
  <1>7. TypeOK'
    BY <1>0, <1>2, <1>3, <1>4 DEF TypeOK, Frames, Structs
  <1>8. OneApartment(a)
    BY <1>0, <1>2, <1>3, <1>5, <1>6 DEF OneApartment, TypeOK
  <1>9. HomeInv'
    BY <1>0, <1>2, <1>5 DEF HomeInv, Is
  <1>10. ReferencesCounted'
    <2>1. Slot(o) # Null => Keeps(a, o) /\ Keeps(a, o)'
      BY <1>2, <1>3, <1>4, <1>6 DEF Keeps, Slot, This, At
    <2>2. Slot(o)' = Slot(o)
      BY <1>5 DEF Slot
    <2>3. \A q \in Objects : heap[q].refs \in Nat /\ held[q] \in Nat /\ q # Null
      BY <1>0 DEF TypeOK, Structs
    <2>4. \A q \in Objects : heap'[q].refs - Share(a, o, q)' = heap[q].refs - Share(a, o, q)
      BY <1>1, <1>2, <1>3, <1>4, <1>5, <1>6, <2>1, <2>2, <2>3 DEF Share
    <2>5. OneHolder(a, o)
      BY <1>2, <1>5, <1>6 DEF OneHolder, At, This
    <2> QED
      BY <1>7, <1>8, <2>4, <2>5, Balance
  <1>11. CountInv'
    <2>1. \A q \in Objects : q \in Registered <=> q \in Registered'
      BY <1>0, <1>1, <1>2, <1>5, <1>6 DEF Registered, New, HomeInv, Is, At, This, Made
    <2>2. a \notin Leaving /\ a \notin Leaving'
      BY <1>1, <1>6 DEF Leaving
    <2> QED
      BY <1>0, <1>2, <1>3, <1>7, <1>8, <2>1, <2>2, CountBalance DEF In, TypeOK
  <1>12. ApartmentInv(a)'
    <2>1. FrameInv(a)'
      <3>1. /\ (heap[o].home)' = a /\ (step # "return" => (heap[o].refs)' = 0)
            /\ step = "subcred" => Slot(o)' # Null
        BY <1>2, <1>3, <1>4, <1>5 DEF Slot
      <3>2. o # Null /\ a # Null /\ step \in {"return", "subcred", "free"}
        BY <1>2
      <3> QED
        BY <1>2, <1>4, <1>6, <3>1, <3>2 DEF FrameInv, At, Working, Ending
    <2>2. ASSUME NEW q \in Objects, heap[q].home = a
          PROVE  /\ Slot(q) # Null /\ Keeps(a, q)' => Keeps(a, q)
                 /\ heap'[q].refs = 0 => Ends(a, q)'
      <3>1. ObjectInv(a, q) /\ (q # o => heap'[q] = heap[q])
        BY <1>0, <1>5, <2>2 DEF ApartmentInv
      <3>2. q # o => heap[q].refs # 0
        BY <1>1, <1>2, <3>1 DEF ObjectInv, Ends, Ending, At
      <3>3. step = "return" => heap'[o].refs # 0
        BY <1>3, <1>4
      <3>4. step # "return" => Ends(a, o)'
        BY <1>3, <1>6 DEF Ends, Ending
      <3>5. Keeps(a, q)' => Keeps(a, q)
        BY <1>4, <1>6, <3>1 DEF Keeps, At
      <3> QED
        BY <3>1, <3>2, <3>3, <3>4, <3>5
    <2> QED
      BY <1>5, <2>1, <2>2, ShapeKept
  <1> QED
    BY <1>7, <1>8, <1>9, <1>10, <1>11, <1>12 DEF Kept

LEMMA SubCredentialKeeps ==
  ASSUME IInv, NEW a \in Apartments, SubCredential(a)
  PROVE  Kept(a)
  <1>0. TypeOK /\ HomeInv /\ ApartmentInv(a)
    BY DEF IInv
  <1>1. call[a].pc = "subcred"
    BY DEF SubCredential, At
  <1>2. PICK o \in Objects :
        /\ o = This(a) /\ heap[o].home = a /\ ~Is(o, "free") /\ call[a] \in Frames
        /\ Made(a) = Null /\ Out(a) = Null /\ heap[o] \in Structs /\ heap[o].refs = 0
    BY <1>1, InHand DEF Working, Ending, FrameInv, At
  <1>3. PICK c \in Objects :
        /\ c = Slot(o) /\ Is(c, "credential") /\ heap[c].home = a /\ heap[c] \in Structs
        /\ c # o /\ Slot(c) = Null
    <2>1. Slot(o) \in Objects /\ Keeps(a, o) /\ Is(o, "provider")
      BY <1>0, <1>1, <1>2, InHand DEF Working, FrameInv, ObjectInv, Keeps, At, This
    <2>2. Is(Slot(o), "credential") /\ heap[Slot(o)].home = a
      BY <1>0, <1>2, <2>1 DEF ApartmentInv, ObjectInv
    <2>3. Slot(Slot(o)) = Null
      BY <1>0, <2>1, <2>2 DEF ApartmentInv, ObjectInv, Is
    <2> QED
      BY <1>0, <2>1, <2>2, <2>3 DEF Is, TypeOK
  <1>4. PICK step \in {"freecred", "free"} :
        /\ UNCHANGED <<dllRefs, held, locks>>
        /\ heap' = [heap EXCEPT ![c].refs = @ - 1]
        /\ call' = [call EXCEPT ![a].pc = step]
        /\ step = IF heap[c].refs = 1 THEN "freecred" ELSE "free"
    BY <1>2, <1>3 DEF SubCredential, Goto, This, Slot
  <1>5. heap[c].refs \in Nat /\ heap[c].refs >= 1 /\ heap'[c].refs = heap[c].refs - 1
    <2>1. heap[c].refs >= Share(a, o, c) /\ heap[c].refs \in Nat /\ held[c] \in Nat
      BY Bound
    <2>2. heap[c].refs >= 1
      BY <1>1, <1>2, <1>3, <2>1 DEF Share, Keeps, At, This
    <2> QED
      BY <1>0, <1>3, <1>4, <2>1, <2>2 DEF TypeOK, Structs
  <1>6. /\ \A q \in Objects :
             /\ q # c => heap'[q] = heap[q]
             /\ heap'[q].kind = heap[q].kind /\ heap'[q].home = heap[q].home
             /\ heap'[q].slot = heap[q].slot /\ heap'[q].flags = heap[q].flags
        /\ This(a)' = o /\ call'[a].pc = step /\ Made(a)' = Null /\ Out(a)' = Null
        /\ \A b \in Apartments \ {a} : call'[b] = call[b]
    BY <1>0, <1>2, <1>4 DEF TypeOK, Structs, This, Made, Out
  <1>7. TypeOK'
    <2>1. [heap[c] EXCEPT !.refs = @ - 1] \in Structs
      BY <1>3, <1>5 DEF Structs
    <2>2. heap' \in [Objects -> Structs]
      BY <1>0, <1>4, <2>1 DEF TypeOK
    <2>3. [call[a] EXCEPT !.pc = step] \in Frames
      BY <1>2 DEF Frames
    <2>4. call' \in [Apartments -> Frames]
      BY <1>0, <1>4, <2>3 DEF TypeOK
    <2> QED
      BY <1>0, <1>4, <2>2, <2>4 DEF TypeOK
  <1>8. OneApartment(a)
    BY <1>0, <1>3, <1>4, <1>6 DEF OneApartment, TypeOK
  <1>9. HomeInv'
    BY <1>0, <1>3, <1>6 DEF HomeInv, Is
  <1>10. ReferencesCounted'
    <2>1. Keeps(a, o) /\ ~Keeps(a, o)' /\ Slot(o)' = c
      <3>1. heap'[o] = heap[o] /\ call'[a].pc # "subcred"
        BY <1>2, <1>3, <1>4, <1>6
      <3> QED
        BY <1>1, <1>2, <1>3, <3>1 DEF Keeps, Slot, This, At
    <2>2. \A q \in Objects : heap[q].refs \in Nat /\ held[q] \in Nat /\ q # Null
      BY <1>0 DEF TypeOK, Structs
    <2>3. \A q \in Objects : heap'[q].refs - Share(a, o, q)' = heap[q].refs - Share(a, o, q)
      <3>1. Share(a, o, c)' = Share(a, o, c) - 1
        BY <1>1, <1>2, <1>3, <1>4, <1>6, <2>1, <2>2 DEF Share
      <3>2. \A q \in Objects \ {c} : Share(a, o, q)' = Share(a, o, q)
        BY <1>1, <1>2, <1>3, <1>4, <1>6, <2>1 DEF Share
      <3>3. Share(a, o, c) \in Int
        BY <2>2 DEF Share
      <3> QED
        BY <1>5, <1>6, <3>1, <3>2, <3>3
    <2>4. OneHolder(a, o)
      BY <1>1, <1>2, <1>3, <1>4, <1>6 DEF OneHolder, At, This, Slot
    <2> QED
      BY <1>7, <1>8, <2>3, <2>4, Balance
  <1>11. CountInv'
    <2>1. \A q \in Objects : q \in Registered <=> q \in Registered'
      BY <1>0, <1>1, <1>2, <1>4, <1>6 DEF Registered, New, HomeInv, Is, At, This, Made
    <2>2. a \notin Leaving /\ a \notin Leaving'
      BY <1>1, <1>4, <1>6 DEF Leaving
    <2> QED
      BY <1>0, <1>2, <1>4, <1>7, <1>8, <2>1, <2>2, CountBalance DEF In, TypeOK
  <1>12. ApartmentInv(a)'
    <2>1. FrameInv(a)'
      <3>1. /\ Is(c, "credential")' /\ (heap[c].home)' = a /\ Slot(o)' = c
            /\ (heap[o].home)' = a /\ (heap[o].refs)' = 0
            /\ step = "freecred" => (heap[c].refs)' = 0
        <4>1. Is(c, "credential")' /\ heap'[c].home = a /\ Slot(o)' = c
          BY <1>3, <1>6 DEF Is, Slot
        <4>2. heap'[o].home = a /\ heap'[o].refs = 0
          BY <1>2, <1>3, <1>6
        <4>3. step = "freecred" => heap'[c].refs = 0
          BY <1>4, <1>5
        <4> QED
          BY <4>1, <4>2, <4>3
      <3> QED
        BY <1>2, <1>3, <1>4, <1>6, <3>1 DEF FrameInv, At, Working, Ending
    <2>2. ASSUME NEW q \in Objects, heap[q].home = a
          PROVE  /\ Slot(q) # Null /\ Keeps(a, q)' => Keeps(a, q)
                 /\ heap'[q].refs = 0 => Ends(a, q)'
      <3>1. ObjectInv(a, q)
        BY <1>0, <2>2 DEF ApartmentInv
      <3>2. q # c /\ heap'[q].refs = 0 => q = o
        BY <1>1, <1>2, <1>6, <3>1 DEF ObjectInv, Ends, At, This
      <3>3. Ends(a, o)'
        BY <1>4, <1>6 DEF Ends, Ending
      <3>4. heap'[c].refs = 0 => Ends(a, c)'
        <4>1. heap'[c].refs = 0 => step = "freecred"
          BY <1>4, <1>5
        <4>2. heap'[o].slot = c
          BY <1>3, <1>6 DEF Slot
        <4> QED
          BY <1>6, <4>1, <4>2 DEF Ends, At, Slot
      <3>5. Slot(q) # Null /\ Keeps(a, q)' => Keeps(a, q)
        BY <1>1, <1>3, <1>4, <1>6 DEF Keeps, At, Slot
      <3> QED
        BY <3>2, <3>3, <3>4, <3>5
    <2> QED
      BY <1>6, <2>1, <2>2, ShapeKept
  <1> QED
    BY <1>7, <1>8, <1>9, <1>10, <1>11, <1>12 DEF Kept

LEMMA FreeCredentialKeeps ==
  ASSUME IInv, NEW a \in Apartments, FreeCredential(a)
  PROVE  Kept(a)
  <1>0. TypeOK /\ HomeInv /\ ApartmentInv(a) /\ Null \notin Apartments
    BY DEF IInv
  <1>1. call[a].pc = "freecred"
    BY DEF FreeCredential, At
  <1>2. PICK o \in Objects :
        /\ o = This(a) /\ heap[o].home = a /\ ~Is(o, "free") /\ call[a] \in Frames
        /\ Made(a) = Null /\ Out(a) = Null /\ heap[o] \in Structs /\ heap[o].refs = 0
    BY <1>1, InHand DEF Working, Ending, FrameInv, At
  <1>3. PICK c \in Objects :
        /\ c = Slot(o) /\ Is(c, "credential") /\ heap[c].home = a /\ heap[c].refs = 0
        /\ c # o /\ Slot(c) = Null
    <2>1. Slot(o) \in Objects /\ Is(o, "provider") /\ Is(Slot(o), "credential")
          /\ heap[Slot(o)].home = a /\ heap[Slot(o)].refs = 0
      BY <1>1, <1>2, InHand DEF Working, FrameInv, ObjectInv, At
    <2>2. Slot(Slot(o)) = Null
      BY <1>0, <2>1 DEF ApartmentInv, ObjectInv, Is
    <2> QED
      BY <2>1, <2>2 DEF Is
  <1>4. /\ UNCHANGED <<dllRefs, held, locks>>
        /\ heap' = [heap EXCEPT ![c] = Freed]
        /\ call' = [call EXCEPT ![a].pc = "uncountcred"]
    BY <1>2, <1>3 DEF FreeCredential, Goto, This, Slot
  <1>5. /\ \A q \in Objects : q # c => heap'[q] = heap[q]
        /\ Is(c, "free")' /\ (heap[c].home)' = Null /\ (heap[c].refs)' = 0 /\ Slot(c)' = Null
        /\ heap'[c] = Freed
    BY <1>0, <1>4 DEF TypeOK, Freed, Is, Slot
  <1>6. /\ This(a)' = o /\ call'[a].pc = "uncountcred" /\ Made(a)' = Null /\ Out(a)' = Null
        /\ \A b \in Apartments \ {a} : call'[b] = call[b]
    BY <1>0, <1>2, <1>4 DEF TypeOK, This, Made, Out
  <1>7. TypeOK'
    BY <1>0, <1>2, <1>4 DEF TypeOK, Frames, Structs, Freed
  <1>8. OneApartment(a)
    BY <1>0, <1>3, <1>4, <1>5, <1>6 DEF OneApartment, TypeOK
  <1>9. HomeInv'
    BY <1>0, <1>3, <1>5 DEF HomeInv, Is
  <1>10. ReferencesCounted'
    <2>1. ~Keeps(a, o) /\ ~Keeps(a, o)'
      BY <1>1, <1>2, <1>3, <1>5, <1>6 DEF Keeps, This, At
    <2>2. \A q \in Objects : heap'[q].refs = heap[q].refs /\ Share(a, o, q)' = Share(a, o, q)
      BY <1>1, <1>2, <1>3, <1>4, <1>5, <1>6, <2>1 DEF Share
    <2>3. OneHolder(a, o)
      BY <1>1, <1>2, <1>3, <1>5, <1>6, <2>2 DEF OneHolder, At, This, Slot
    <2> QED
      BY <1>7, <1>8, <2>2, <2>3, Balance
  <1>11. CountInv'
    <2>1. \A q \in Objects : q # c => (q \in Registered <=> q \in Registered')
      BY <1>0, <1>1, <1>2, <1>5, <1>6 DEF Registered, New, HomeInv, Is, At, This, Made
    <2>2. c \in Registered /\ c \notin Registered'
      BY <1>1, <1>2, <1>3, <1>5 DEF Registered, New, Is, At, Made
    <2>3. a \notin Leaving /\ a \in Leaving'
      BY <1>1, <1>6 DEF Leaving
    <2> QED
      BY <1>0, <1>4, <1>7, <1>8, <2>1, <2>2, <2>3, CountBalance DEF In, TypeOK
  <1>12. ApartmentInv(a)'
    <2>1. FrameInv(a)'
      BY <1>2, <1>3, <1>5, <1>6 DEF FrameInv, At, Working, Ending
    <2>2. \A q \in Objects : q # c =>
            /\ Slot(q)' = Slot(q) /\ Is(q, "provider")' = Is(q, "provider")
            /\ Keeps(a, q)' => Keeps(a, q)
      BY <1>5, <1>6 DEF Keeps, At, Slot, Is
    <2>3. ASSUME NEW q \in Objects, q # c, heap[q].home = a, Keeps(a, q) PROVE Slot(q) # c
      <3>1. 0 >= Share(a, q, c) /\ held[c] \in Nat
        BY <1>3, Bound
      <3> QED
        BY <2>3, <3>1 DEF Share
    <2>4. SlotsDiffer(a)'
      BY <1>0, <1>5, <2>2 DEF ApartmentInv, SlotsDiffer
    <2>5. ASSUME NEW q \in Objects, heap'[q].home = a PROVE ObjectInv(a, q)'
      <3>1. q # c /\ heap[q].home = a /\ ObjectInv(a, q)
        BY <1>0, <1>5, <2>5 DEF ApartmentInv
      <3>2. heap'[q].refs = 0 => Ends(a, q)'
        BY <1>1, <1>2, <1>3, <1>5, <1>6, <3>1 DEF ObjectInv, Ends, Ending, At, This
      <3>3. Slot(q)' # Null => Is(q, "provider")'
        BY <2>2, <3>1 DEF ObjectInv
      <3>4. Slot(q)' # Null /\ Keeps(a, q)' =>
              /\ Is(Slot(q), "credential")'
              /\ (heap[Slot(q)].home)' = a /\ (heap[Slot(q)].flags)' = (heap[q].flags)'
        <4>1. Slot(q) \in Objects \cup {Null}
          BY <1>0 DEF TypeOK, Structs, Slot
        <4> QED
          BY <1>5, <2>2, <2>3, <3>1, <4>1 DEF ObjectInv, Is
      <3> QED
        BY <3>2, <3>3, <3>4 DEF ObjectInv
    <2> QED
      BY <2>1, <2>4, <2>5 DEF ApartmentInv
  <1> QED
    BY <1>7, <1>8, <1>9, <1>10, <1>11, <1>12 DEF Kept

LEMMA UncountCredentialKeeps ==
  ASSUME IInv, NEW a \in Apartments, UncountCredential(a)
  PROVE  Kept(a)
  <1>0. TypeOK /\ HomeInv /\ ApartmentInv(a)
    BY DEF IInv
  <1>1. call[a].pc = "uncountcred"
    BY DEF UncountCredential, At
  <1>2. PICK o \in Objects :
        /\ o = This(a) /\ heap[o].home = a /\ call[a] \in Frames
        /\ Made(a) = Null /\ Out(a) = Null /\ heap[o].refs = 0
    BY <1>1, InHand DEF Working, Ending, FrameInv, At
  <1>3. /\ UNCHANGED <<heap, held, locks>> /\ dllRefs' = dllRefs - 1
        /\ call' = [call EXCEPT ![a].pc = "free"]
    BY DEF UncountCredential, Goto
  <1>4. /\ This(a)' = o /\ call'[a].pc = "free" /\ Made(a)' = Null /\ Out(a)' = Null
        /\ \A b \in Apartments \ {a} : call'[b] = call[b]
    BY <1>0, <1>2, <1>3 DEF TypeOK, This, Made, Out
  <1>5. a \in Leaving /\ a \notin Leaving'
    BY <1>1, <1>4 DEF Leaving
  <1>6. TypeOK'
    BY <1>0, <1>2, <1>3, <1>5, LeavingCounts DEF TypeOK, Frames
  <1>7. OneApartment(a)
    BY <1>3, <1>4 DEF OneApartment
  <1>8. HomeInv'
    BY <1>0, <1>3 DEF HomeInv, Is
  <1>9. ReferencesCounted'
    <2>1. ~Keeps(a, o) /\ ~Keeps(a, o)' /\ Slot(o)' = Slot(o)
      BY <1>1, <1>2, <1>3, <1>4 DEF Keeps, This, At, Slot
    <2>2. \A q \in Objects : Share(a, o, q)' = Share(a, o, q)
      BY <1>1, <1>2, <1>3, <1>4, <2>1 DEF Share
    <2>3. OneHolder(a, o)
      BY <1>1, <1>2, <1>3, <1>4 DEF OneHolder, At, This
    <2> QED
      BY <1>3, <1>6, <1>7, <2>2, <2>3, Balance
  <1>10. CountInv'
    <2>1. \A q \in Objects : q \in Registered <=> q \in Registered'
      BY <1>0, <1>1, <1>2, <1>3, <1>4 DEF Registered, New, HomeInv, Is, At, This, Made
    <2> QED
      BY <1>0, <1>3, <1>5, <1>6, <1>7, <2>1, CountBalance DEF In, TypeOK
  <1>11. ApartmentInv(a)'
    <2>1. FrameInv(a)'
      BY <1>2, <1>3, <1>4 DEF FrameInv, At, Working, Ending
    <2>2. ASSUME NEW q \in Objects, heap[q].home = a
          PROVE  /\ Slot(q) # Null /\ Keeps(a, q)' => Keeps(a, q)
                 /\ heap'[q].refs = 0 => Ends(a, q)'
      BY <1>0, <1>1, <1>2, <1>3, <1>4, <2>2
         DEF ApartmentInv, ObjectInv, Keeps, Ends, Ending, At, This, Slot
    <2> QED
      BY <1>3, <2>1, <2>2, ShapeKept
  <1> QED
    BY <1>6, <1>7, <1>8, <1>9, <1>10, <1>11 DEF Kept

LEMMA FreeKeeps ==
  ASSUME IInv, NEW a \in Apartments, Free(a)
  PROVE  Kept(a)
  <1>0. TypeOK /\ HomeInv /\ ApartmentInv(a) /\ Null \notin Apartments
    BY DEF IInv
  <1>1. call[a].pc = "free"
    BY DEF Free, At
  <1>2. PICK o \in Objects :
        /\ o = This(a) /\ heap[o].home = a /\ ~Is(o, "free") /\ call[a] \in Frames
        /\ Made(a) = Null /\ Out(a) = Null /\ heap[o].refs = 0
    BY <1>1, InHand DEF Working, Ending, FrameInv, At
  <1>3. /\ UNCHANGED <<dllRefs, held, locks>>
        /\ heap' = [heap EXCEPT ![o] = Freed]
        /\ call' = [call EXCEPT ![a].pc = "uncount"]
    BY <1>2 DEF Free, Goto, This
  <1>4. /\ \A q \in Objects : q # o => heap'[q] = heap[q]
        /\ Is(o, "free")' /\ (heap[o].home)' = Null /\ (heap[o].refs)' = 0 /\ Slot(o)' = Null
        /\ heap'[o] = Freed
    BY <1>0, <1>3 DEF TypeOK, Freed, Is, Slot
  <1>5. /\ This(a)' = o /\ call'[a].pc = "uncount" /\ Made(a)' = Null /\ Out(a)' = Null
        /\ \A b \in Apartments \ {a} : call'[b] = call[b]
    BY <1>0, <1>2, <1>3 DEF TypeOK, This, Made, Out
  <1>6. TypeOK'
    BY <1>0, <1>2, <1>3 DEF TypeOK, Frames, Structs, Freed
  <1>7. OneApartment(a)
    BY <1>0, <1>2, <1>3, <1>4, <1>5 DEF OneApartment, TypeOK
  <1>8. HomeInv'
    BY <1>0, <1>4 DEF HomeInv, Is
  <1>9. ReferencesCounted'
    <2>1. ~Keeps(a, o)
      BY <1>1, <1>2 DEF Keeps, This, At
    <2>2. \A q \in Objects : heap'[q].refs = heap[q].refs /\ Share(a, o, q)' = Share(a, o, q)
      BY <1>1, <1>2, <1>3, <1>4, <1>5, <2>1 DEF Share
    <2>3. OneHolder(a, o)
      BY <1>1, <1>2, <1>4, <1>5 DEF OneHolder, At, This
    <2> QED
      BY <1>6, <1>7, <2>2, <2>3, Balance
  <1>10. CountInv'
    <2>1. \A q \in Objects : q # o => (q \in Registered <=> q \in Registered')
      BY <1>0, <1>1, <1>2, <1>4, <1>5 DEF Registered, New, HomeInv, Is, At, This, Made
    <2>2. o \in Registered /\ o \notin Registered'
      BY <1>1, <1>2, <1>4 DEF Registered, New, Is, At, Made
    <2>3. a \notin Leaving /\ a \in Leaving'
      BY <1>1, <1>5 DEF Leaving
    <2> QED
      BY <1>0, <1>3, <1>6, <1>7, <2>1, <2>2, <2>3, CountBalance DEF In, TypeOK
  <1>11. ApartmentInv(a)'
    <2>1. FrameInv(a)'
      BY <1>5 DEF FrameInv, At, Working, Ending
    <2>2. \A q \in Objects : q # o =>
            /\ Slot(q)' = Slot(q) /\ Is(q, "provider")' = Is(q, "provider")
            /\ Keeps(a, q)' => Keeps(a, q)
      BY <1>4, <1>5 DEF Keeps, At, Slot, Is
    <2>3. ASSUME NEW q \in Objects, q # o, heap[q].home = a, Keeps(a, q) PROVE Slot(q) # o
      <3>1. 0 >= Share(a, q, o) /\ held[o] \in Nat
        BY <1>2, Bound
      <3> QED
        BY <2>3, <3>1 DEF Share
    <2>4. SlotsDiffer(a)'
      BY <1>0, <1>4, <2>2 DEF ApartmentInv, SlotsDiffer
    <2>5. ASSUME NEW q \in Objects, heap'[q].home = a PROVE ObjectInv(a, q)'
      <3>1. q # o /\ heap[q].home = a /\ ObjectInv(a, q)
        BY <1>0, <1>4, <2>5 DEF ApartmentInv
      <3>2. heap'[q].refs = 0 => Ends(a, q)'
        BY <1>1, <1>2, <1>4, <3>1 DEF ObjectInv, Ends, Ending, At, This
      <3>3. Slot(q)' # Null => Is(q, "provider")'
        BY <2>2, <3>1 DEF ObjectInv
      <3>4. Slot(q)' # Null /\ Keeps(a, q)' =>
              /\ Is(Slot(q), "credential")'
              /\ (heap[Slot(q)].home)' = a /\ (heap[Slot(q)].flags)' = (heap[q].flags)'
        <4>1. Slot(q) \in Objects \cup {Null}
          BY <1>0 DEF TypeOK, Structs, Slot
        <4> QED
          BY <1>4, <2>2, <2>3, <3>1, <4>1 DEF ObjectInv, Is
      <3> QED
        BY <3>2, <3>3, <3>4 DEF ObjectInv
    <2> QED
      BY <2>1, <2>4, <2>5 DEF ApartmentInv
  <1> QED
    BY <1>6, <1>7, <1>8, <1>9, <1>10, <1>11 DEF Kept

LEMMA UncountKeeps ==
  ASSUME IInv, NEW a \in Apartments, Uncount(a)
  PROVE  Kept(a)
  <1>0. TypeOK /\ HomeInv /\ ApartmentInv(a) /\ Null \notin Objects
    BY DEF IInv
  <1>1. call[a].pc = "uncount" /\ call[a] \in Frames /\ Made(a) = Null /\ Out(a) = Null
    BY <1>0 DEF Uncount, At, ApartmentInv, FrameInv, TypeOK
  <1>2. /\ UNCHANGED <<heap, held, locks>> /\ dllRefs' = dllRefs - 1
        /\ call' = [call EXCEPT ![a].pc = "return"]
    BY DEF Uncount, Goto
  <1>3. /\ call'[a].pc = "return" /\ Made(a)' = Null /\ Out(a)' = Null
        /\ \A b \in Apartments \ {a} : call'[b] = call[b]
    BY <1>0, <1>1, <1>2 DEF TypeOK, Made, Out
  <1>4. a \in Leaving /\ a \notin Leaving'
    BY <1>1, <1>3 DEF Leaving
  <1>5. TypeOK'
    BY <1>0, <1>1, <1>2, <1>4, LeavingCounts DEF TypeOK, Frames
  <1>6. OneApartment(a)
    BY <1>2, <1>3 DEF OneApartment
  <1>7. HomeInv'
    BY <1>0, <1>2 DEF HomeInv, Is
  <1>8. ReferencesCounted'
    <2>1. \A q \in Objects : Share(a, Null, q)' = Share(a, Null, q)
      BY <1>0, <1>1, <1>2, <1>3 DEF Share
    <2>2. OneHolder(a, Null)
      BY <1>0, <1>1, <1>2, <1>3 DEF OneHolder, At
    <2>3. \A q \in Objects :
            heap'[q].refs - Share(a, Null, q)' = heap[q].refs - Share(a, Null, q)
      BY <1>2, <2>1
    <2> QED
      BY <1>5, <1>6, <2>2, <2>3, Balance
  <1>9. CountInv'
    <2>1. \A q \in Objects : q \in Registered <=> q \in Registered'
      BY <1>0, <1>1, <1>2, <1>3 DEF Registered, New, HomeInv, Is, At, This, Made
    <2>2. dllRefs' - locks' - In(Null, Registered') - In(a, Leaving')
            = dllRefs - locks - In(Null, Registered) - In(a, Leaving)
      BY <1>0, <1>2, <1>4 DEF In, Registered, TypeOK
    <2> QED
      BY <1>5, <1>6, <2>1, <2>2, CountBalance
  <1>10. ApartmentInv(a)'
    <2>1. FrameInv(a)'
      BY <1>3 DEF FrameInv, At, Working, Ending
    <2>2. ASSUME NEW q \in Objects, heap[q].home = a
          PROVE  /\ Slot(q) # Null /\ Keeps(a, q)' => Keeps(a, q)
                 /\ heap'[q].refs = 0 => Ends(a, q)'
      BY <1>0, <1>1, <1>2, <1>3, <2>2
         DEF ApartmentInv, ObjectInv, Keeps, Ends, Ending, At, This, Slot
    <2> QED
      BY <1>2, <2>1, <2>2, ShapeKept
  <1> QED
    BY <1>5, <1>6, <1>7, <1>8, <1>9, <1>10 DEF Kept

LEMMA ReturnKeeps ==
  ASSUME IInv, NEW a \in Apartments, Return(a)
  PROVE  Kept(a)
  <1>0. TypeOK /\ HomeInv /\ ApartmentInv(a) /\ Null \notin Objects
    BY DEF IInv
  <1>1. call[a].pc = "return" /\ call[a] \in Frames /\ Made(a) = Null
        /\ Out(a) \in Objects \cup {Null} /\ (Out(a) # Null => heap[Out(a)].home = a)
    BY <1>0 DEF Return, At, ApartmentInv, FrameInv, TypeOK, Frames, Out
  <1>2. PICK o \in Objects \cup {Null} :
        /\ o = Out(a) /\ UNCHANGED <<dllRefs, heap, locks>>
        /\ held' = IF o = Null THEN held ELSE [held EXCEPT ![o] = @ + 1]
        /\ call' = [call EXCEPT ![a] = NoCall]
    BY <1>1 DEF Return, Out
  <1>3. /\ call'[a] = NoCall /\ call'[a].pc = "idle" /\ This(a)' = Null
        /\ Made(a)' = Null /\ Out(a)' = Null
        /\ \A b \in Apartments \ {a} : call'[b] = call[b]
    BY <1>0, <1>2 DEF TypeOK, NoCall, This, Made, Out
  <1>4. \A q \in Objects : /\ held'[q] = IF q = o THEN held[q] + 1 ELSE held[q]
                           /\ held[q] \in Nat
    BY <1>0, <1>2 DEF TypeOK
  <1>5. TypeOK'
    <2>1. NoCall \in Frames
      BY DEF NoCall, Frames
    <2> QED
      BY <1>0, <1>2, <2>1 DEF TypeOK
  <1>6. OneApartment(a)
    BY <1>1, <1>2, <1>3, <1>4 DEF OneApartment
  <1>7. HomeInv'
    BY <1>0, <1>2 DEF HomeInv, Is
  <1>8. ReferencesCounted'
    <2>1. \A q \in Objects : Share(a, Null, q)' = Share(a, Null, q)
      BY <1>0, <1>1, <1>2, <1>3, <1>4 DEF Share
    <2>2. OneHolder(a, Null)
      BY <1>0, <1>1, <1>2, <1>3 DEF OneHolder, At
    <2>3. \A q \in Objects :
            heap'[q].refs - Share(a, Null, q)' = heap[q].refs - Share(a, Null, q)
      BY <1>2, <2>1
    <2> QED
      BY <1>5, <1>6, <2>2, <2>3, Balance
  <1>9. CountInv'
    <2>1. \A q \in Objects : q \in Registered <=> q \in Registered'
      BY <1>0, <1>1, <1>2, <1>3 DEF Registered, New, HomeInv, Is, At, This, Made
    <2>2. a \notin Leaving /\ a \notin Leaving'
      BY <1>1, <1>3 DEF Leaving
    <2>3. dllRefs' - locks' - In(Null, Registered') - In(a, Leaving')
            = dllRefs - locks - In(Null, Registered) - In(a, Leaving)
      BY <1>0, <1>2, <2>2 DEF In, Registered, TypeOK
    <2> QED
      BY <1>5, <1>6, <2>1, <2>3, CountBalance
  <1>10. ApartmentInv(a)'
    <2>1. FrameInv(a)'
      BY <1>3 DEF FrameInv, At, Working, Ending
    <2>2. ASSUME NEW q \in Objects, heap[q].home = a
          PROVE  /\ Slot(q) # Null /\ Keeps(a, q)' => Keeps(a, q)
                 /\ heap'[q].refs = 0 => Ends(a, q)'
      BY <1>0, <1>1, <1>2, <1>3, <2>2
         DEF ApartmentInv, ObjectInv, Keeps, Ends, Ending, At, This, Slot
    <2> QED
      BY <1>2, <2>1, <2>2, ShapeKept
  <1> QED
    BY <1>5, <1>6, <1>7, <1>8, <1>9, <1>10 DEF Kept

LEMMA CountCredentialKeeps ==
  ASSUME IInv, NEW a \in Apartments, CountCredential(a)
  PROVE  Kept(a)
  <1>0. TypeOK /\ HomeInv /\ ApartmentInv(a) /\ Null \notin Objects
    BY DEF IInv
  <1>1. call[a].pc = "countcred"
    BY DEF CountCredential, At
  <1>2. PICK o \in Objects, c \in Objects :
        /\ o = This(a) /\ heap[o].home = a /\ call[a] \in Frames /\ Is(o, "provider")
        /\ Slot(o) = Null /\ held[o] > 0 /\ Out(a) = Null /\ heap[o] \in Structs
        /\ c = Made(a) /\ heap[c].home = a /\ Is(c, "credential") /\ heap[c].refs = 1
        /\ heap[c].flags = heap[o].flags
    BY <1>1, InHand DEF Working, FrameInv, At
  <1>3. PICK step \in {"give", "return"} :
        /\ UNCHANGED <<held, locks>> /\ dllRefs' = dllRefs + 1
        /\ heap' = [heap EXCEPT ![o].slot = c]
        /\ call' = [call EXCEPT ![a].pc = step, ![a].made = Null]
    BY <1>2 DEF CountCredential, This, Made
  <1>4. /\ \A q \in Objects :
             /\ q # o => heap'[q] = heap[q]
             /\ heap'[q].kind = heap[q].kind /\ heap'[q].home = heap[q].home
             /\ heap'[q].refs = heap[q].refs /\ heap'[q].flags = heap[q].flags
             /\ Slot(q)' = IF q = o THEN c ELSE Slot(q)
             /\ heap[q].refs \in Nat
        /\ c # o
    BY <1>0, <1>2, <1>3 DEF TypeOK, Structs, Slot, Is
  <1>5. /\ This(a)' = o /\ call'[a].pc = step /\ Made(a)' = Null /\ Out(a)' = Null
        /\ \A b \in Apartments \ {a} : call'[b] = call[b]
    BY <1>0, <1>2, <1>3 DEF TypeOK, Frames, This, Made, Out
  <1>6. heap[o].refs > 0 /\ \A q \in Objects : Keeps(a, q)' = Keeps(a, q)
    <2>1. heap[o].refs >= Share(a, o, o) /\ heap[o].refs \in Nat /\ held[o] \in Nat
      BY Bound
    <2>2. heap[o].refs > 0
      BY <1>2, <2>1 DEF Share
    <2> QED
      BY <1>1, <1>4, <1>5, <2>2 DEF Keeps, At
  <1>7. TypeOK'
    <2>1. heap' \in [Objects -> Structs]
      BY <1>0, <1>2, <1>3 DEF TypeOK, Structs
    <2>2. call' \in [Apartments -> Frames]
      BY <1>0, <1>2, <1>3 DEF TypeOK, Frames
    <2> QED
      BY <1>0, <1>3, <2>1, <2>2 DEF TypeOK
  <1>8. OneApartment(a)
    BY <1>0, <1>2, <1>3, <1>4, <1>5 DEF OneApartment, TypeOK
  <1>9. HomeInv'
    BY <1>0, <1>2, <1>4 DEF HomeInv, Is
  <1>10. ReferencesCounted'
    <2>1. Keeps(a, o) /\ Keeps(a, o)'
      BY <1>6 DEF Keeps
    <2>2. \A q \in Objects : held[q] \in Nat
      BY <1>0 DEF TypeOK
    <2>3. \A q \in Objects : Share(a, o, q)' = Share(a, o, q)
      BY <1>0, <1>1, <1>2, <1>3, <1>4, <1>5, <2>1, <2>2 DEF Share
    <2>4. OneHolder(a, o)
      BY <1>1, <1>2, <1>4, <1>5 DEF OneHolder, At, This
    <2> QED
      BY <1>4, <1>7, <1>8, <2>3, <2>4, Balance
  <1>11. CountInv'
    <2>1. \A q \in Objects : q # c => (q \in Registered <=> q \in Registered')
      BY <1>0, <1>1, <1>2, <1>4, <1>5 DEF Registered, New, HomeInv, Is, At, This, Made
    <2>2. c \notin Registered /\ c \in Registered'
      BY <1>0, <1>1, <1>2, <1>4, <1>5 DEF Registered, New, Is, At, Made
    <2>3. a \notin Leaving /\ a \notin Leaving'
      BY <1>1, <1>3, <1>5 DEF Leaving
    <2> QED
      BY <1>0, <1>3, <1>7, <1>8, <2>1, <2>2, <2>3, CountBalance DEF In, TypeOK
  <1>12. ApartmentInv(a)'
    <2>1. FrameInv(a)'
      BY <1>0, <1>2, <1>3, <1>4, <1>5 DEF FrameInv, At, Working, Ending
    <2>2. ASSUME NEW q \in Objects, heap[q].home = a, Keeps(a, q) PROVE Slot(q) # c
      <3>1. 1 >= Share(a, q, c) /\ held[c] \in Nat
        BY <1>2, Bound
      <3> QED
        BY <1>2, <2>2, <3>1 DEF Share
    <2>3. SlotsDiffer(a)'
      <3> SUFFICES ASSUME NEW p \in Objects, NEW q \in Objects,
                          heap'[p].home = a, heap'[q].home = a, Slot(p)' # Null,
                          Slot(p)' = Slot(q)', Keeps(a, p)', Keeps(a, q)'
                   PROVE  p = q
        BY DEF SlotsDiffer
      <3>1. heap[p].home = a /\ heap[q].home = a /\ Keeps(a, p) /\ Keeps(a, q)
        BY <1>4, <1>6
      <3>2. CASE p # o /\ q # o
        BY <1>0, <1>4, <3>1, <3>2 DEF ApartmentInv, SlotsDiffer
      <3>3. CASE p = o \/ q = o
        BY <1>4, <2>2, <3>1, <3>3
      <3> QED
        BY <3>2, <3>3
    <2>4. ASSUME NEW q \in Objects, heap'[q].home = a PROVE ObjectInv(a, q)'
      <3>1. ObjectInv(a, q)
        BY <1>0, <1>4, <2>4 DEF ApartmentInv
      <3>2. heap'[q].refs = 0 => Ends(a, q)'
        BY <1>1, <1>4, <3>1 DEF ObjectInv, Ends, Ending, At
      <3>3. Slot(q)' # Null => Is(q, "provider")'
        BY <1>2, <1>4, <3>1 DEF ObjectInv, Is
      <3>4. Slot(q)' # Null /\ Keeps(a, q)' =>
              /\ Is(Slot(q), "credential")'
              /\ (heap[Slot(q)].home)' = a /\ (heap[Slot(q)].flags)' = (heap[q].flags)'
        <4>1. Slot(q) \in Objects \cup {Null}
          BY <1>0 DEF TypeOK, Structs, Slot
        <4> QED
          BY <1>2, <1>4, <1>6, <3>1, <4>1 DEF ObjectInv, Is
      <3> QED
        BY <3>2, <3>3, <3>4 DEF ObjectInv
    <2> QED
      BY <2>1, <2>3, <2>4 DEF ApartmentInv
  <1> QED
    BY <1>7, <1>8, <1>9, <1>10, <1>11, <1>12 DEF Kept

LEMMA GiveKeeps ==
  ASSUME IInv, NEW a \in Apartments, Give(a)
  PROVE  Kept(a)
  <1>0. TypeOK /\ HomeInv /\ ApartmentInv(a) /\ Null \notin Objects
    BY DEF IInv
  <1>1. call[a].pc = "give"
    BY DEF Give, At
  <1>2. PICK o \in Objects :
        /\ o = This(a) /\ heap[o].home = a /\ call[a] \in Frames /\ Made(a) = Null
        /\ Slot(o) \in Objects /\ held[o] > 0 /\ Out(a) = Null /\ ObjectInv(a, o)
    BY <1>1, InHand DEF Working, FrameInv, At
  <1>3. Keeps(a, o)
    <2>1. heap[o].refs >= Share(a, o, o) /\ heap[o].refs \in Nat /\ held[o] \in Nat
      BY Bound
    <2> QED
      BY <1>2, <2>1 DEF Share, Keeps
  <1>4. PICK c \in Objects : /\ c = Slot(o) /\ Is(c, "credential") /\ heap[c].home = a
                             /\ Slot(c) = Null /\ c # o
    <2>1. Is(Slot(o), "credential") /\ heap[Slot(o)].home = a /\ Is(o, "provider")
      BY <1>0, <1>2, <1>3 DEF ObjectInv
    <2>2. Slot(Slot(o)) = Null
      BY <1>0, <1>2, <2>1 DEF ApartmentInv, ObjectInv, Is
    <2> QED
      BY <1>2, <2>1, <2>2 DEF Is
  <1>5. /\ UNCHANGED <<dllRefs, held, locks>>
        /\ heap' = [heap EXCEPT ![c].refs = @ + 1]
        /\ call' = [call EXCEPT ![a].pc = "return", ![a].out = c]
    BY <1>2, <1>4 DEF Give, This, Slot
  <1>6. /\ \A q \in Objects :
             /\ q # c => heap'[q] = heap[q]
             /\ heap'[q].kind = heap[q].kind /\ heap'[q].home = heap[q].home
             /\ heap'[q].slot = heap[q].slot /\ heap'[q].flags = heap[q].flags
             /\ heap[q].refs \in Nat /\ held[q] \in Nat
        /\ heap'[c].refs = heap[c].refs + 1
        /\ This(a)' = o /\ call'[a].pc = "return" /\ Made(a)' = Null /\ Out(a)' = c
        /\ \A b \in Apartments \ {a} : call'[b] = call[b]
    <2>1. /\ \A q \in Objects :
                /\ q # c => heap'[q] = heap[q]
                /\ heap'[q].kind = heap[q].kind /\ heap'[q].home = heap[q].home
                /\ heap'[q].slot = heap[q].slot /\ heap'[q].flags = heap[q].flags
                /\ heap[q].refs \in Nat /\ held[q] \in Nat
          /\ heap'[c].refs = heap[c].refs + 1
      BY <1>0, <1>5 DEF TypeOK, Structs
    <2>2. /\ This(a)' = o /\ call'[a].pc = "return" /\ Made(a)' = Null /\ Out(a)' = c
          /\ \A b \in Apartments \ {a} : call'[b] = call[b]
      BY <1>0, <1>2, <1>5 DEF TypeOK, Frames, This, Made, Out
    <2> QED
      BY <2>1, <2>2
  <1>7. TypeOK'
    <2>1. heap' \in [Objects -> Structs]
      BY <1>0, <1>5 DEF TypeOK, Structs
    <2>2. call' \in [Apartments -> Frames]
      BY <1>0, <1>2, <1>5 DEF TypeOK, Frames
    <2> QED
      BY <1>0, <1>5, <2>1, <2>2 DEF TypeOK
  <1>8. OneApartment(a)
    BY <1>0, <1>4, <1>5, <1>6 DEF OneApartment, TypeOK
  <1>9. HomeInv'
    BY <1>0, <1>4, <1>6 DEF HomeInv, Is
  <1>10. ReferencesCounted'
    <2>1. Keeps(a, o)' /\ Slot(o)' = Slot(o)
      BY <1>1, <1>3, <1>4, <1>6 DEF Keeps, At, Slot
    <2>2. Share(a, o, c)' = Share(a, o, c) + 1
      BY <1>0, <1>1, <1>2, <1>3, <1>4, <1>5, <1>6, <2>1 DEF Share
    <2>3. \A q \in Objects \ {c} : Share(a, o, q)' = Share(a, o, q)
      BY <1>0, <1>1, <1>2, <1>3, <1>4, <1>5, <1>6, <2>1 DEF Share
    <2>4. Share(a, o, c) \in Int
      BY <1>6 DEF Share
    <2>5. \A q \in Objects : heap'[q].refs - Share(a, o, q)' = heap[q].refs - Share(a, o, q)
      BY <1>6, <2>2, <2>3, <2>4
    <2>6. OneHolder(a, o)
      BY <1>1, <1>2, <1>4, <1>6 DEF OneHolder, At, This, Slot
    <2> QED
      BY <1>7, <1>8, <2>5, <2>6, Balance
  <1>11. CountInv'
    <2>1. \A q \in Objects : q \in Registered <=> q \in Registered'
      BY <1>0, <1>1, <1>2, <1>6 DEF Registered, New, HomeInv, Is, At, This, Made
    <2>2. a \notin Leaving /\ a \notin Leaving'
      BY <1>1, <1>6 DEF Leaving
    <2> QED
      BY <1>0, <1>2, <1>5, <1>7, <1>8, <2>1, <2>2, CountBalance DEF In, TypeOK
  <1>12. ApartmentInv(a)'
    <2>1. FrameInv(a)'
      BY <1>0, <1>4, <1>6 DEF FrameInv, At, Working, Ending
    <2>2. ASSUME NEW q \in Objects, heap[q].home = a
          PROVE  /\ Slot(q) # Null /\ Keeps(a, q)' => Keeps(a, q)
                 /\ heap'[q].refs = 0 => Ends(a, q)'
      <3>1. ObjectInv(a, q)
        BY <1>0, <2>2 DEF ApartmentInv
      <3>2. heap'[q].refs # 0
        BY <1>1, <1>6, <3>1 DEF ObjectInv, Ends, Ending, At
      <3>3. Slot(q) # Null => q # c
        BY <1>4
      <3> QED
        BY <1>1, <1>6, <3>2, <3>3 DEF Keeps, At
    <2> QED
      BY <1>6, <2>1, <2>2, ShapeKept
  <1> QED
    BY <1>7, <1>8, <1>9, <1>10, <1>11, <1>12 DEF Kept

\* What the host calls, an object it holds, while its apartment is idle.
LEMMA Callable ==
  ASSUME IInv, NEW a \in Apartments, NEW o \in Objects, NEW kind, kind # "free", Calls(a, o, kind)
  PROVE  /\ call[a] = NoCall /\ call[a].pc = "idle"
         /\ This(a) = Null /\ Made(a) = Null /\ Out(a) = Null
         /\ heap[o].home = a /\ held[o] \in Nat /\ held[o] > 0
         /\ heap[o].refs \in Nat /\ heap[o].refs > 0 /\ ~Is(o, "free") /\ heap[o] \in Structs
  <1>0. TypeOK /\ HomeInv /\ ApartmentInv(a)
    BY DEF IInv
  <1>1. call[a] = NoCall
    BY <1>0 DEF Calls, ApartmentInv, FrameInv
  <1>2. heap[o].refs >= Share(a, Null, o) /\ heap[o].refs \in Nat /\ held[o] \in Nat
    BY Bound
  <1>3. heap[o].refs > 0
    BY <1>2 DEF Share, Calls
  <1> QED
    BY <1>0, <1>1, <1>2, <1>3 DEF Calls, TypeOK, NoCall, This, Made, Out, Is

LEMMA AddRefKeeps ==
  ASSUME IInv, NEW a \in Apartments, NEW o \in Objects, AddRef(a, o)
  PROVE  Kept(a)
  <1>0. TypeOK /\ HomeInv /\ ApartmentInv(a) /\ Null \notin Objects
    BY DEF IInv
  <1>1. /\ call[a] = NoCall /\ call[a].pc = "idle"
        /\ This(a) = Null /\ Made(a) = Null /\ Out(a) = Null
        /\ heap[o].home = a /\ held[o] \in Nat /\ held[o] > 0
        /\ heap[o].refs \in Nat /\ heap[o].refs > 0 /\ ~Is(o, "free")
    BY Callable DEF AddRef
  <1>2. /\ UNCHANGED <<dllRefs, locks, call>>
        /\ heap' = [heap EXCEPT ![o].refs = @ + 1]
        /\ held' = [held EXCEPT ![o] = @ + 1]
    BY DEF AddRef
  <1>3. /\ \A q \in Objects :
             /\ q # o => heap'[q] = heap[q] /\ held'[q] = held[q]
             /\ heap'[q].kind = heap[q].kind /\ heap'[q].home = heap[q].home
             /\ heap'[q].slot = heap[q].slot /\ heap'[q].flags = heap[q].flags
             /\ heap[q].refs \in Nat /\ held[q] \in Nat
        /\ heap'[o].refs = heap[o].refs + 1 /\ held'[o] = held[o] + 1
    BY <1>0, <1>2 DEF TypeOK, Structs
  <1>4. This(a)' = Null /\ Made(a)' = Null /\ Out(a)' = Null
    BY <1>1, <1>2 DEF This, Made, Out
  <1>5. TypeOK'
    BY <1>0, <1>2 DEF TypeOK, Structs
  <1>6. OneApartment(a)
    BY <1>1, <1>2, <1>3 DEF OneApartment
  <1>7. HomeInv'
    BY <1>0, <1>1, <1>3 DEF HomeInv, Is
  <1>8. ReferencesCounted'
    <2>1. /\ Share(a, Null, o)' = Share(a, Null, o) + 1 /\ Share(a, Null, o) \in Int
          /\ \A q \in Objects \ {o} : Share(a, Null, q)' = Share(a, Null, q)
      BY <1>0, <1>1, <1>2, <1>3, <1>4 DEF Share
    <2>2. OneHolder(a, Null)
      BY <1>0, <1>1, <1>2, <1>3 DEF OneHolder, At
    <2>3. \A q \in Objects :
            heap'[q].refs - Share(a, Null, q)' = heap[q].refs - Share(a, Null, q)
      BY <1>3, <2>1
    <2> QED
      BY <1>5, <1>6, <2>2, <2>3, Balance
  <1>9. CountInv'
    <2>1. Registered' = Registered /\ Leaving' = Leaving
      BY <1>0, <1>2, <1>3 DEF Registered, Leaving, New, Is, At, This, Made
    <2> QED
      BY <1>2, <2>1 DEF IInv, CountInv
  <1>10. ApartmentInv(a)'
    <2>1. FrameInv(a)'
      BY <1>1, <1>2, <1>4 DEF FrameInv, At, Working, Ending
    <2>2. ASSUME NEW q \in Objects, heap[q].home = a
          PROVE  /\ Slot(q) # Null /\ Keeps(a, q)' => Keeps(a, q)
                 /\ heap'[q].refs = 0 => Ends(a, q)'
      <3>1. ObjectInv(a, q) /\ heap[q].refs # 0
        BY <1>0, <1>1, <2>2 DEF ApartmentInv, ObjectInv, Ends, Ending, At
      <3> QED
        BY <1>3, <3>1 DEF Keeps
    <2> QED
      BY <1>3, <2>1, <2>2, ShapeKept
  <1> QED
    BY <1>5, <1>6, <1>7, <1>8, <1>9, <1>10 DEF Kept

LEMMA ReleaseKeeps ==
  ASSUME IInv, NEW a \in Apartments, NEW o \in Objects, Release(a, o)
  PROVE  Kept(a)
  <1>0. TypeOK /\ HomeInv /\ ApartmentInv(a) /\ Null \notin Objects
    BY DEF IInv
  <1>1. /\ call[a] = NoCall /\ call[a].pc = "idle"
        /\ This(a) = Null /\ Made(a) = Null /\ Out(a) = Null
        /\ heap[o].home = a /\ held[o] \in Nat /\ held[o] > 0 /\ ~Is(o, "free")
    BY Callable DEF Release
  <1>2. /\ UNCHANGED <<dllRefs, heap, locks>>
        /\ held' = [held EXCEPT ![o] = @ - 1]
        /\ call' = [call EXCEPT ![a] = [NoCall EXCEPT !.pc = "sub", !.this = o]]
    BY DEF Release
  <1>3. /\ \A q \in Objects : /\ q # o => held'[q] = held[q]
                              /\ held[q] \in Nat
        /\ held'[o] = held[o] - 1
        /\ This(a)' = o /\ call'[a].pc = "sub" /\ Made(a)' = Null /\ Out(a)' = Null
        /\ \A b \in Apartments \ {a} : call'[b] = call[b]
    BY <1>0, <1>2 DEF TypeOK, NoCall, This, Made, Out
  <1>4. TypeOK'
    <2>1. [NoCall EXCEPT !.pc = "sub", !.this = o] \in Frames
      BY DEF NoCall, Frames
    <2>2. held' \in [Objects -> Nat]
      BY <1>0, <1>1, <1>2 DEF TypeOK
    <2> QED
      BY <1>0, <1>2, <2>1, <2>2 DEF TypeOK
  <1>5. OneApartment(a)
    BY <1>1, <1>2, <1>3 DEF OneApartment
  <1>6. HomeInv'
    BY <1>0, <1>2 DEF HomeInv, Is
  <1>7. ReferencesCounted'
    <2>1. \A q \in Objects : Share(a, Null, q)' = Share(a, Null, q)
      BY <1>0, <1>1, <1>2, <1>3 DEF Share
    <2>2. OneHolder(a, Null)
      BY <1>0, <1>1, <1>2, <1>3 DEF OneHolder, At
    <2>3. \A q \in Objects :
            heap'[q].refs - Share(a, Null, q)' = heap[q].refs - Share(a, Null, q)
      BY <1>2, <2>1
    <2> QED
      BY <1>4, <1>5, <2>2, <2>3, Balance
  <1>8. CountInv'
    <2>1. \A q \in Objects : q \in Registered <=> q \in Registered'
      BY <1>0, <1>1, <1>2, <1>3 DEF Registered, New, HomeInv, Is, At, This, Made
    <2>2. o \in Objects /\ a \notin Leaving /\ a \notin Leaving'
      BY <1>1, <1>3 DEF Leaving
    <2> QED
      BY <1>0, <1>2, <1>4, <1>5, <2>1, <2>2, CountBalance DEF In, TypeOK
  <1>9. ApartmentInv(a)'
    <2>1. FrameInv(a)'
      BY <1>1, <1>2, <1>3 DEF FrameInv, At, Working, Ending
    <2>2. ASSUME NEW q \in Objects, heap[q].home = a
          PROVE  /\ Slot(q) # Null /\ Keeps(a, q)' => Keeps(a, q)
                 /\ heap'[q].refs = 0 => Ends(a, q)'
      <3>1. ObjectInv(a, q) /\ heap[q].refs # 0
        BY <1>0, <1>1, <2>2 DEF ApartmentInv, ObjectInv, Ends, Ending, At
      <3> QED
        BY <1>2, <1>3, <3>1 DEF Keeps, At
    <2> QED
      BY <1>2, <2>1, <2>2, ShapeKept
  <1> QED
    BY <1>4, <1>5, <1>6, <1>7, <1>8, <1>9 DEF Kept

\* What an apartment has in its hands depends on calls, objects and the host's
\* references alone.
LEMMA SameKeeps ==
  ASSUME NEW a \in Apartments, ApartmentInv(a), UNCHANGED <<heap, held, call>>
  PROVE  ApartmentInv(a)'
  <1>1. heap' = heap /\ held' = held /\ call' = call
    OBVIOUS
  <1>2. FrameInv(a)'
    BY <1>1 DEF ApartmentInv, FrameInv, At, Is, This, Made, Out, Slot
  <1>3. SlotsDiffer(a)'
    BY <1>1 DEF ApartmentInv, SlotsDiffer, Keeps, At, This, Slot
  <1>4. ASSUME NEW o \in Objects, heap'[o].home = a PROVE ObjectInv(a, o)'
    <2>1. ObjectInv(a, o)
      BY <1>1, <1>4 DEF ApartmentInv
    <2> QED
      BY <1>1, <2>1 DEF ObjectInv, Ends, Keeps, At, Is, This, Slot
  <1> QED
    BY <1>2, <1>3, <1>4 DEF ApartmentInv

LEMMA LockServerKeeps ==
  ASSUME IInv, NEW a \in Apartments, NEW f \in Objects, NEW lock \in BOOLEAN,
         LockServer(a, f, lock)
  PROVE  Kept(a)
  <1>0. TypeOK /\ HomeInv /\ ApartmentInv(a)
    BY DEF IInv
  <1>1. /\ UNCHANGED <<heap, held, call>>
        /\ \/ locks' = locks + 1 /\ dllRefs' = dllRefs + 1
           \/ locks > 0 /\ locks' = locks - 1 /\ dllRefs' = dllRefs - 1
    BY DEF LockServer
  <1>2. /\ Cardinality(Registered) \in Nat /\ Cardinality(Leaving) \in Nat
        /\ Registered' = Registered /\ Leaving' = Leaving
    <2>1. Registered \subseteq Objects /\ Leaving \subseteq Apartments
      BY DEF Registered, Leaving
    <2>2. Registered' = Registered /\ Leaving' = Leaving
      BY <1>1 DEF Registered, Leaving, New, Is, At, This, Made
    <2> QED
      BY <2>1, <2>2, CountsFor
  <1>3. TypeOK' /\ CountInv'
    <2>1. dllRefs = locks + Cardinality(Registered) + Cardinality(Leaving)
      BY DEF IInv, CountInv
    <2>2. dllRefs' \in Nat /\ locks' \in Nat
          /\ dllRefs' = locks' + Cardinality(Registered) + Cardinality(Leaving)
      BY <1>0, <1>1, <1>2, <2>1 DEF TypeOK
    <2> QED
      BY <1>0, <1>1, <1>2, <2>2 DEF TypeOK, CountInv
  <1>4. HomeInv' /\ OneApartment(a)
    BY <1>0, <1>1 DEF HomeInv, OneApartment, Is
  <1>5. ReferencesCounted'
    <2>1. \A o \in Objects : Owners(o)' = Owners(o)
      BY <1>1 DEF Owners, At
    <2> QED
      BY <1>1, <2>1 DEF IInv, ReferencesCounted
  <1>6. ApartmentInv(a)'
    BY <1>0, <1>1, SameKeeps
  <1> QED
    BY <1>3, <1>4, <1>5, <1>6 DEF Kept

\* A free address holds no object.
LEMMA FreeAddress ==
  ASSUME HomeInv, NEW o \in Objects, Is(o, "free")
  PROVE  /\ heap[o] = Freed
         /\ heap[o].refs = 0 /\ heap[o].slot = Null /\ heap[o].home = Null
  <1>1. heap[o] = Freed
    BY DEF HomeInv
  <1>2. Freed.refs = 0 /\ Freed.slot = Null /\ Freed.home = Null
    BY DEF Freed
  <1> QED
    BY <1>1, <1>2

\* A new factory or provider.
LEMMA ConstructKeeps ==
  ASSUME IInv, NEW a \in Apartments, NEW o \in Objects, NEW kind \in {"factory", "provider"},
         NEW known \in BOOLEAN, At(a, "idle"), Construct(a, o, kind, known)
  PROVE  Kept(a)
  <1>0. TypeOK /\ HomeInv /\ ApartmentInv(a) /\ Null \notin Objects /\ Null \notin Apartments
    BY DEF IInv
  <1>1. /\ call[a] = NoCall /\ call[a].pc = "idle"
        /\ This(a) = Null /\ Made(a) = Null /\ Out(a) = Null
    BY <1>0 DEF ApartmentInv, FrameInv, NoCall, This, Made, Out
  <1>2. /\ UNCHANGED <<dllRefs, held, locks>>
        /\ heap' = [heap EXCEPT ![o] = NewObject(a, kind)]
        /\ call' = [call EXCEPT ![a] = [NoCall EXCEPT !.pc = "count", !.this = o, !.wanted = known]]
    BY DEF Construct
  <1>3. heap[o] = Freed /\ heap[o].refs = 0 /\ heap[o].slot = Null /\ heap[o].home = Null
    BY <1>0, FreeAddress DEF Construct
  <1>4. /\ \A q \in Objects : q # o => heap'[q] = heap[q]
        /\ heap'[o].kind = kind /\ heap'[o].home = a /\ heap'[o].refs = 1 /\ heap'[o].slot = Null
    BY <1>0, <1>2 DEF TypeOK, NewObject, Freed
  <1>5. /\ This(a)' = o /\ call'[a].pc = "count" /\ Made(a)' = Null /\ Out(a)' = Null
        /\ \A b \in Apartments \ {a} : call'[b] = call[b]
    BY <1>0, <1>2 DEF TypeOK, NoCall, This, Made, Out
  <1>6. TypeOK'
    <2>1. NewObject(a, kind) \in Structs
      BY DEF NewObject, Freed, Structs
    <2>2. [NoCall EXCEPT !.pc = "count", !.this = o, !.wanted = known] \in Frames
      BY DEF NoCall, Frames
    <2> QED
      BY <1>0, <1>2, <2>1, <2>2 DEF TypeOK
  <1>7. OneApartment(a)
    BY <1>2, <1>3, <1>4, <1>5 DEF OneApartment
  <1>8. HomeInv'
    BY <1>0, <1>4 DEF HomeInv, Is
  <1>9. ReferencesCounted'
    <2>1. \A q \in Objects : held[q] \in Nat
      BY <1>0 DEF TypeOK
    <2>2. /\ Share(a, Null, o)' = Share(a, Null, o) + 1 /\ Share(a, Null, o) \in Int
          /\ \A q \in Objects \ {o} : Share(a, Null, q)' = Share(a, Null, q)
      BY <1>0, <1>1, <1>2, <1>5, <2>1 DEF Share
    <2>3. OneHolder(a, Null)
      BY <1>0, <1>1, <1>3, <1>4, <1>5 DEF OneHolder, At
    <2>4. \A q \in Objects :
            heap'[q].refs - Share(a, Null, q)' = heap[q].refs - Share(a, Null, q)
      BY <1>3, <1>4, <2>2
    <2> QED
      BY <1>6, <1>7, <2>3, <2>4, Balance
  <1>10. CountInv'
    <2>1. \A q \in Objects : q # o => (q \in Registered <=> q \in Registered')
      BY <1>0, <1>1, <1>4, <1>5 DEF Registered, New, HomeInv, Is, At, This, Made
    <2>2. o \notin Registered /\ o \notin Registered'
      BY <1>3, <1>4, <1>5 DEF Registered, New, Freed, Is, At
    <2>3. a \notin Leaving /\ a \notin Leaving'
      BY <1>1, <1>5 DEF Leaving
    <2> QED
      BY <1>0, <1>2, <1>6, <1>7, <2>1, <2>2, <2>3, CountBalance DEF In, TypeOK
  <1>11. ApartmentInv(a)'
    <2>1. FrameInv(a)'
      BY <1>0, <1>4, <1>5 DEF FrameInv, At, Working, Ending
    <2>2. \A q \in Objects : Keeps(a, q) <=> heap[q].refs > 0
      BY <1>1 DEF Keeps, At
    <2>3. \A q \in Objects : Keeps(a, q)' <=> heap'[q].refs > 0
      BY <1>5 DEF Keeps, At
    <2>4. SlotsDiffer(a)'
      BY <1>0, <1>4, <2>2, <2>3 DEF ApartmentInv, SlotsDiffer, Slot
    <2>5. ObjectInv(a, o)'
      BY <1>4 DEF ObjectInv, Slot
    <2>6. ASSUME NEW q \in Objects, q # o, heap'[q].home = a PROVE ObjectInv(a, q)'
      <3>1. ObjectInv(a, q) /\ heap'[q] = heap[q]
        BY <1>0, <1>4, <2>6 DEF ApartmentInv
      <3>2. heap[q].refs # 0
        BY <1>1, <3>1 DEF ObjectInv, Ends, Ending, At
      <3>3. Slot(q) # Null /\ Keeps(a, q) => Slot(q) # o
        BY <1>3, <3>1 DEF ObjectInv, Is, Freed
      <3>4. Slot(q) \in Objects \cup {Null}
        BY <1>0 DEF TypeOK, Structs, Slot
      <3> QED
        BY <1>4, <2>2, <2>3, <3>1, <3>2, <3>3, <3>4 DEF ObjectInv, Is, Slot
    <2> QED
      BY <2>1, <2>4, <2>5, <2>6 DEF ApartmentInv
  <1> QED
    BY <1>6, <1>7, <1>8, <1>9, <1>10, <1>11 DEF Kept

\* h is the heap but for the flags of provider p, which its credential shares.
Flagged(p, h) ==
    /\ h \in [Objects -> Structs]
    /\ \A q \in Objects :
          /\ h[q].kind = heap[q].kind /\ h[q].home = heap[q].home
          /\ h[q].refs = heap[q].refs /\ h[q].slot = heap[q].slot
          /\ q \notin {p, heap[p].slot} => h[q] = heap[q]
    /\ heap[p].slot # Null => h[heap[p].slot].flags = h[p].flags

\* A provider has its credential already.
LEMMA FoundKeeps ==
  ASSUME IInv, NEW a \in Apartments, NEW p \in Objects, NEW give \in BOOLEAN, NEW h,
         Calls(a, p, "provider"), Flagged(p, h), heap[p].slot # Null,
         heap' = h, UNCHANGED <<dllRefs, held, locks>>,
         call' = [call EXCEPT ![a] = [NoCall EXCEPT !.pc = IF give THEN "give" ELSE "return",
                                                    !.this = p]]
  PROVE  Kept(a)
  <1>0. TypeOK /\ HomeInv /\ ApartmentInv(a) /\ Null \notin Objects
    BY DEF IInv
  <1>1. /\ call[a] = NoCall /\ call[a].pc = "idle" /\ Is(p, "provider")
        /\ This(a) = Null /\ Made(a) = Null /\ Out(a) = Null
        /\ heap[p].home = a /\ held[p] > 0 /\ heap[p].refs > 0
    BY Callable DEF Calls
  <1>2. PICK c \in Objects : c = heap[p].slot /\ heap[c].home = a /\ Is(c, "credential")
    BY <1>0, <1>1 DEF ApartmentInv, ObjectInv, Keeps, Slot, TypeOK, Structs
  <1>3. /\ \A q \in Objects :
             /\ heap'[q].kind = heap[q].kind /\ heap'[q].home = heap[q].home
             /\ heap'[q].refs = heap[q].refs /\ heap'[q].slot = heap[q].slot
             /\ q \notin {p, c} => heap'[q] = heap[q]
        /\ heap'[c].flags = heap'[p].flags
    BY <1>2 DEF Flagged
  <1>4. /\ This(a)' = p /\ call'[a].pc \in {"give", "return"} /\ Made(a)' = Null /\ Out(a)' = Null
        /\ \A b \in Apartments \ {a} : call'[b] = call[b]
    BY <1>0 DEF TypeOK, NoCall, This, Made, Out
  <1>5. TypeOK'
    <2>1. [NoCall EXCEPT !.pc = IF give THEN "give" ELSE "return", !.this = p] \in Frames
      BY DEF NoCall, Frames
    <2> QED
      BY <1>0, <2>1 DEF TypeOK, Flagged
  <1>6. OneApartment(a)
    BY <1>1, <1>2, <1>3, <1>4 DEF OneApartment
  <1>7. HomeInv'
    BY <1>0, <1>1, <1>2, <1>3 DEF HomeInv, Is
  <1>8. ReferencesCounted'
    <2>1. \A q \in Objects : Share(a, Null, q)' = Share(a, Null, q)
      BY <1>0, <1>1, <1>4 DEF Share
    <2>2. OneHolder(a, Null)
      BY <1>0, <1>1, <1>3, <1>4 DEF OneHolder, At
    <2>3. \A q \in Objects :
            heap'[q].refs - Share(a, Null, q)' = heap[q].refs - Share(a, Null, q)
      BY <1>3, <2>1
    <2> QED
      BY <1>5, <1>6, <2>2, <2>3, Balance
  <1>9. CountInv'
    <2>1. \A q \in Objects : q \in Registered <=> q \in Registered'
      BY <1>0, <1>1, <1>3, <1>4 DEF Registered, New, HomeInv, Is, At, This, Made
    <2>2. p \in Objects /\ a \notin Leaving /\ a \notin Leaving'
      BY <1>1, <1>4 DEF Leaving
    <2> QED
      BY <1>0, <1>5, <1>6, <2>1, <2>2, CountBalance DEF In, TypeOK
  <1>10. ApartmentInv(a)'
    <2>1. FrameInv(a)'
      BY <1>0, <1>1, <1>2, <1>3, <1>4 DEF FrameInv, At, Slot, Working, Ending
    <2>2. \A q \in Objects : /\ Keeps(a, q) <=> heap[q].refs > 0
                             /\ Keeps(a, q)' <=> heap[q].refs > 0
                             /\ Slot(q)' = Slot(q) /\ Slot(q) \in Objects \cup {Null}
      BY <1>0, <1>1, <1>3, <1>4 DEF Keeps, At, Slot, TypeOK, Structs
    <2>3. SlotsDiffer(a)'
      BY <1>0, <1>3, <2>2 DEF ApartmentInv, SlotsDiffer
    <2>4. ASSUME NEW q \in Objects, heap'[q].home = a PROVE ObjectInv(a, q)'
      <3>1. ObjectInv(a, q) /\ heap[q].home = a
        BY <1>0, <1>3, <2>4 DEF ApartmentInv
      <3>2. heap'[q].refs # 0
        BY <1>1, <1>3, <3>1 DEF ObjectInv, Ends, Ending, At
      <3>3. ASSUME Slot(q) # Null, Keeps(a, q)
            PROVE  /\ Is(Slot(q), "credential")'
                   /\ (heap[Slot(q)].home)' = a /\ (heap[Slot(q)].flags)' = (heap[q].flags)'
        <4>1. /\ Slot(q) \in Objects /\ Is(Slot(q), "credential") /\ Is(q, "provider")
              /\ heap[Slot(q)].home = a /\ heap[Slot(q)].flags = heap[q].flags
          BY <2>2, <3>1, <3>3 DEF ObjectInv
        <4>2. CASE q = p
          BY <1>2, <1>3, <2>2, <4>1, <4>2 DEF Is, Slot
        <4>3. CASE q # p
          <5>1. Slot(q) # c
            BY <1>0, <1>1, <1>2, <2>2, <3>1, <3>3, <4>3 DEF ApartmentInv, SlotsDiffer, Slot
          <5>2. q # c /\ Slot(q) # p
            BY <1>1, <1>2, <4>1 DEF Is
          <5> QED
            BY <1>3, <2>2, <4>1, <4>3, <5>1, <5>2 DEF Is
        <4> QED
          BY <4>2, <4>3
      <3>4. Slot(q)' # Null => Is(q, "provider")'
        BY <1>3, <2>2, <3>1 DEF ObjectInv, Is
      <3> QED
        BY <2>2, <3>2, <3>3, <3>4 DEF ObjectInv
    <2> QED
      BY <2>1, <2>3, <2>4 DEF ApartmentInv
  <1> QED
    BY <1>5, <1>6, <1>7, <1>8, <1>9, <1>10 DEF Kept

\* A provider makes its credential, at c.
LEMMA MakeKeeps ==
  ASSUME IInv, NEW a \in Apartments, NEW p \in Objects, NEW c \in Objects, NEW give \in BOOLEAN,
         NEW h, Calls(a, p, "provider"), Flagged(p, h), heap[p].slot = Null, Is(c, "free"),
         heap' = [h EXCEPT ![c] = NewCredential(a, h[p].flags)], UNCHANGED <<dllRefs, held, locks>>,
         call' = [call EXCEPT ![a] = [NoCall EXCEPT !.pc = "countcred", !.this = p,
                                                    !.made = c, !.wanted = give]]
  PROVE  Kept(a)
  <1>0. TypeOK /\ HomeInv /\ ApartmentInv(a) /\ Null \notin Objects /\ Null \notin Apartments
    BY DEF IInv
  <1>1. /\ call[a] = NoCall /\ call[a].pc = "idle" /\ Is(p, "provider")
        /\ This(a) = Null /\ Made(a) = Null /\ Out(a) = Null
        /\ heap[p].home = a /\ held[p] > 0 /\ heap[p].refs > 0
    BY Callable DEF Calls
  <1>2. /\ heap[c] = Freed /\ heap[c].refs = 0 /\ heap[c].slot = Null /\ heap[c].home = Null
        /\ c # p
    <2>1. c # p
      BY <1>1 DEF Is
    <2> QED
      BY <1>0, <2>1, FreeAddress
  <1>3. /\ \A q \in Objects : q # c =>
             /\ heap'[q].kind = heap[q].kind /\ heap'[q].home = heap[q].home
             /\ heap'[q].refs = heap[q].refs /\ heap'[q].slot = heap[q].slot
             /\ q # p => heap'[q] = heap[q]
        /\ heap'[c].kind = "credential" /\ heap'[c].home = a /\ heap'[c].refs = 1
        /\ heap'[c].slot = Null /\ heap'[c].flags = heap'[p].flags
    <2>1. \A q \in Objects : q # c => heap'[q] = h[q]
      BY DEF Flagged
    <2>2. heap'[c] = NewCredential(a, h[p].flags)
      BY DEF Flagged
    <2>3. \A q \in Objects : q # Null
      BY <1>0
    <2> QED
      BY <1>2, <2>1, <2>2, <2>3 DEF Flagged, NewCredential, NewObject, Freed
  <1>4. /\ This(a)' = p /\ call'[a].pc = "countcred" /\ Made(a)' = c /\ Out(a)' = Null
        /\ \A b \in Apartments \ {a} : call'[b] = call[b]
    BY <1>0 DEF TypeOK, NoCall, This, Made, Out
  <1>5. TypeOK'
    <2>1. NewCredential(a, h[p].flags) \in Structs
      BY DEF NewCredential, NewObject, Freed, Structs, Flagged
    <2>2. [NoCall EXCEPT !.pc = "countcred", !.this = p, !.made = c, !.wanted = give] \in Frames
      BY DEF NoCall, Frames
    <2> QED
      BY <1>0, <2>1, <2>2 DEF TypeOK, Flagged
  <1>6. OneApartment(a)
    BY <1>1, <1>2, <1>3, <1>4 DEF OneApartment
  <1>7. HomeInv'
    BY <1>0, <1>1, <1>3 DEF HomeInv, Is
  <1>8. ReferencesCounted'
    <2>1. \A q \in Objects : held[q] \in Nat
      BY <1>0 DEF TypeOK
    <2>2. /\ Share(a, Null, c)' = Share(a, Null, c) + 1 /\ Share(a, Null, c) \in Int
          /\ \A q \in Objects \ {c} : Share(a, Null, q)' = Share(a, Null, q)
      BY <1>0, <1>1, <1>4, <2>1 DEF Share
    <2>3. OneHolder(a, Null)
      BY <1>0, <1>1, <1>2, <1>3, <1>4 DEF OneHolder, At
    <2>4. \A q \in Objects :
            heap'[q].refs - Share(a, Null, q)' = heap[q].refs - Share(a, Null, q)
      BY <1>2, <1>3, <2>2
    <2> QED
      BY <1>5, <1>6, <2>3, <2>4, Balance
  <1>9. CountInv'
    <2>1. \A q \in Objects : q # c => (q \in Registered <=> q \in Registered')
      BY <1>0, <1>1, <1>3, <1>4 DEF Registered, New, HomeInv, Is, At, This, Made
    <2>2. c \notin Registered /\ c \notin Registered'
      BY <1>2, <1>3, <1>4 DEF Registered, New, Freed, Is
    <2>3. a \notin Leaving /\ a \notin Leaving'
      BY <1>1, <1>4 DEF Leaving
    <2> QED
      BY <1>0, <1>5, <1>6, <2>1, <2>2, <2>3, CountBalance DEF In, TypeOK
  <1>10. ApartmentInv(a)'
    <2>1. FrameInv(a)'
      BY <1>0, <1>1, <1>2, <1>3, <1>4 DEF FrameInv, At, Is, Slot, Working, Ending
    <2>2. \A q \in Objects : /\ Keeps(a, q) <=> heap[q].refs > 0
                             /\ q # c => (Keeps(a, q)' <=> heap[q].refs > 0) /\ Slot(q)' = Slot(q)
                             /\ Slot(q) \in Objects \cup {Null}
      BY <1>0, <1>1, <1>3, <1>4 DEF Keeps, At, Slot, TypeOK, Structs
    <2>3. Slot(c)' = Null /\ Slot(p) = Null
      BY <1>3 DEF Slot
    <2>4. SlotsDiffer(a)'
      BY <1>0, <1>3, <2>2, <2>3 DEF ApartmentInv, SlotsDiffer
    <2>5. ObjectInv(a, c)'
      BY <1>3, <2>3 DEF ObjectInv
    <2>6. ASSUME NEW q \in Objects, q # c, heap'[q].home = a PROVE ObjectInv(a, q)'
      <3>1. ObjectInv(a, q) /\ heap[q].home = a
        BY <1>0, <1>3, <2>6 DEF ApartmentInv
      <3>2. heap'[q].refs # 0
        BY <1>1, <1>3, <2>6, <3>1 DEF ObjectInv, Ends, Ending, At
      <3>3. ASSUME Slot(q) # Null, Keeps(a, q)
            PROVE  /\ Is(Slot(q), "credential")'
                   /\ (heap[Slot(q)].home)' = a /\ (heap[Slot(q)].flags)' = (heap[q].flags)'
        <4>1. /\ Slot(q) \in Objects /\ Is(Slot(q), "credential")
              /\ heap[Slot(q)].home = a /\ heap[Slot(q)].flags = heap[q].flags
          BY <2>2, <3>1, <3>3 DEF ObjectInv
        <4>2. q # p /\ Slot(q) # c /\ Slot(q) # p
          BY <1>1, <1>2, <2>3, <3>3, <4>1 DEF Is, Freed
        <4> QED
          BY <1>3, <2>2, <2>6, <4>1, <4>2 DEF Is
      <3>4. Slot(q)' # Null => Is(q, "provider")'
        BY <1>3, <2>2, <2>6, <3>1 DEF ObjectInv, Is
      <3> QED
        BY <2>2, <2>6, <3>2, <3>3, <3>4 DEF ObjectInv
    <2> QED
      BY <2>1, <2>4, <2>5, <2>6 DEF ApartmentInv
  <1> QED
    BY <1>5, <1>6, <1>7, <1>8, <1>9, <1>10 DEF Kept

LEMMA EnsureKeeps ==
  ASSUME IInv, NEW a \in Apartments, NEW p \in Objects, NEW c \in Objects, NEW give \in BOOLEAN,
         NEW h, Calls(a, p, "provider"), Flagged(p, h), Ensure(a, p, c, give, h),
         UNCHANGED <<dllRefs, held, locks>>
  PROVE  Kept(a)
  <1>1. h[p].slot = heap[p].slot
    BY DEF Flagged
  <1>2. CASE heap[p].slot = Null
    BY <1>1, <1>2, MakeKeeps DEF Ensure
  <1>3. CASE heap[p].slot # Null
    BY <1>1, <1>3, FoundKeeps DEF Ensure
  <1> QED
    BY <1>2, <1>3

\* set_usage_scenario: the flags and nothing else.
LEMMA SetFlagsFlags ==
  ASSUME TypeOK, NEW p \in Objects, NEW f \in Flags
  PROVE  Flagged(p, SetFlags(p, f))
  <1>0. TypeOK /\ Null \notin Objects
    OBVIOUS
  <1>1. SetFlags(p, f) \in [Objects -> Structs]
    <2>1. ASSUME NEW q \in Objects
          PROVE  /\ [heap[q] EXCEPT !.credUI = TRUE, !.flags = f] \in Structs
                 /\ [heap[q] EXCEPT !.flags = f] \in Structs
                 /\ heap[q] \in Structs
      <3>1. heap[q] \in Structs
        BY <1>0 DEF TypeOK
      <3>2. [heap[q] EXCEPT !.credUI = TRUE, !.flags = f] \in Structs
        BY <3>1 DEF Structs
      <3>3. [heap[q] EXCEPT !.flags = f] \in Structs
        BY <3>1 DEF Structs
      <3> QED
        BY <3>1, <3>2, <3>3
    <2> QED
      BY <2>1 DEF SetFlags
  <1>2. heap[p].slot # Null => heap[p].slot \in Objects
    BY <1>0 DEF TypeOK, Structs
  <1>3. ASSUME NEW q \in Objects
        PROVE  /\ SetFlags(p, f)[q].kind = heap[q].kind /\ SetFlags(p, f)[q].home = heap[q].home
               /\ SetFlags(p, f)[q].refs = heap[q].refs /\ SetFlags(p, f)[q].slot = heap[q].slot
               /\ q \notin {p, heap[p].slot} => SetFlags(p, f)[q] = heap[q]
               /\ q \in {p, heap[p].slot} => SetFlags(p, f)[q].flags = f
    <2>1. heap[q] \in Structs
      BY <1>0 DEF TypeOK
    <2>2. SetFlags(p, f)[q] = CASE q = p            -> [heap[q] EXCEPT !.credUI = TRUE, !.flags = f]
                                [] q = heap[p].slot -> [heap[q] EXCEPT !.flags = f]
                                [] OTHER            -> heap[q]
      BY DEF SetFlags
    <2>3. CASE q = p
      BY <2>1, <2>2, <2>3 DEF Structs
    <2>4. CASE q # p /\ q = heap[p].slot
      BY <2>1, <2>2, <2>4 DEF Structs
    <2>5. CASE q \notin {p, heap[p].slot}
      BY <2>1, <2>2, <2>5
    <2> QED
      BY <2>3, <2>4, <2>5
  <1> QED
    BY <1>1, <1>2, <1>3 DEF Flagged

\* SetUsageScenario, GetCredentialCount and GetCredentialAt.
LEMMA ProviderKeeps ==
  ASSUME IInv, NEW a \in Apartments, NEW p \in Objects, NEW c \in Objects, NEW f \in Flags,
         SetUsageScenario(a, p, c, f) \/ GetCredentialCount(a, p, c) \/ GetCredentialAt(a, p, c)
  PROVE  Kept(a)
  <1>0. TypeOK /\ HomeInv /\ ApartmentInv(a) /\ Null \notin Objects
    BY DEF IInv
  <1>1. Calls(a, p, "provider") /\ UNCHANGED <<dllRefs, held, locks>>
    BY DEF SetUsageScenario, GetCredentialCount, GetCredentialAt
  <1>2. heap[p].home = a /\ heap[p].refs > 0 /\ Is(p, "provider")
    BY <1>1, Callable DEF Calls
  <1>3. Flagged(p, heap)
    BY <1>0, <1>2 DEF Flagged, TypeOK, ApartmentInv, ObjectInv, Keeps, Slot
  <1>4. Flagged(p, SetFlags(p, f))
    BY <1>0, SetFlagsFlags
  <1>5. CASE SetUsageScenario(a, p, c, f)
    BY <1>1, <1>4, <1>5, EnsureKeeps DEF SetUsageScenario
  <1>6. CASE GetCredentialCount(a, p, c)
    BY <1>1, <1>3, <1>6, EnsureKeeps DEF GetCredentialCount
  <1>7. CASE GetCredentialAt(a, p, c)
    BY <1>1, <1>3, <1>7, EnsureKeeps DEF GetCredentialAt
  <1> QED
    BY <1>5, <1>6, <1>7

-----------------------------------------------------------------------------
(* The invariant holds throughout, and what follows from it.               *)

LEMMA IInvInit == Init => IInv
  <1> SUFFICES ASSUME Init PROVE IInv
    OBVIOUS
  <1> USE DEF Init
  <1>1. TypeOK
    BY DEF TypeOK, Freed, Structs, NoCall, Frames
  <1>2. HomeInv
    BY DEF HomeInv, Freed, Is
  <1>3. ASSUME NEW o \in Objects
        PROVE  /\ Holders(o) = {} /\ Workers(o) = {} /\ Makers(o) = {} /\ Returners(o) = {}
               /\ heap[o].refs = 0 /\ held[o] = 0 /\ heap[o].home = Null
    BY DEF Holders, Workers, Makers, Returners, Freed, NoCall
  <1>4. ASSUME NEW o \in Objects PROVE heap[o].refs = Owners(o)
    <2>1. Owners(o) = held[o] + Cardinality(Holders(o)) + Cardinality(Workers(o))
                      + Cardinality(Makers(o)) + Cardinality(Returners(o))
      BY OwnersCount
    <2>2. Owners(o) = 0 + Cardinality({}) + Cardinality({}) + Cardinality({}) + Cardinality({})
      BY <1>3, <2>1
    <2> QED
      BY <1>3, <2>2, FS_EmptySet
  <1>5. CountInv
    <2>1. Registered = {} /\ Leaving = {}
      BY DEF Registered, Leaving, Freed, NoCall, Is
    <2> QED
      BY <2>1, FS_EmptySet DEF CountInv
  <1>6. ASSUME NEW a \in Apartments PROVE ApartmentInv(a)
    <2>1. FrameInv(a)
      BY DEF FrameInv, At, This, Made, Out, NoCall, Working, Ending
    <2>2. \A o \in Objects : heap[o].home # a
      BY <1>3
    <2> QED
      BY <2>1, <2>2 DEF ApartmentInv, SlotsDiffer
  <1> QED
    BY <1>1, <1>2, <1>4, <1>5, <1>6 DEF IInv, ReferencesCounted

LEMMA IInvNext == IInv /\ [Next]_vars => IInv'
  <1> SUFFICES ASSUME IInv, [Next]_vars PROVE IInv'
    OBVIOUS
  <1>1. CASE UNCHANGED vars
    <2> USE <1>1 DEF vars
    <2>1. TypeOK' /\ HomeInv'
      BY DEF IInv, TypeOK, HomeInv, Is
    <2>2. ReferencesCounted'
      <3>1. \A o \in Objects : Owners(o)' = Owners(o)
        BY DEF Owners, At
      <3> QED
        BY <3>1 DEF IInv, ReferencesCounted
    <2>3. CountInv'
      <3>1. Registered' = Registered /\ Leaving' = Leaving
        BY DEF Registered, Leaving, New, Is, At, This, Made
      <3> QED
        BY <3>1 DEF IInv, CountInv
    <2>4. ASSUME NEW a \in Apartments PROVE ApartmentInv(a)'
      <3>1. ApartmentInv(a)
        BY DEF IInv
      <3> QED
        BY <3>1, SameKeeps
    <2> QED
      BY <2>1, <2>2, <2>3, <2>4 DEF IInv
  <1>2. ASSUME NEW a \in Apartments, Host(a) PROVE Kept(a)
    <2>1. CASE \E o \in Objects, known \in BOOLEAN : DllGetClassObject(a, o, known)
      BY <2>1, ConstructKeeps DEF DllGetClassObject
    <2>2. CASE \E f, o \in Objects, known \in BOOLEAN : CreateInstance(a, f, o, known)
      BY <2>2, ConstructKeeps DEF CreateInstance, Calls
    <2>3. CASE \E o \in Objects : AddRef(a, o) \/ Release(a, o)
      BY <2>3, AddRefKeeps, ReleaseKeeps
    <2>4. CASE \E f \in Objects, lock \in BOOLEAN : LockServer(a, f, lock)
      BY <2>4, LockServerKeeps
    <2>5. CASE \E p, c \in Objects, f \in Flags : SetUsageScenario(a, p, c, f)
      BY <2>5, ProviderKeeps
    <2>6. CASE \E p, c \in Objects : GetCredentialCount(a, p, c) \/ GetCredentialAt(a, p, c)
      BY <2>6, ProviderKeeps
    <2> QED
      BY <1>2, <2>1, <2>2, <2>3, <2>4, <2>5, <2>6 DEF Host
  <1>3. ASSUME NEW a \in Apartments, Step(a) PROVE Kept(a)
    BY <1>3, CountKeeps, QueryKeeps, SubKeeps, SubCredentialKeeps, FreeCredentialKeeps,
       UncountCredentialKeeps, FreeKeeps, UncountKeeps, CountCredentialKeeps, GiveKeeps,
       ReturnKeeps DEF Step
  <1> QED
    BY <1>1, <1>2, <1>3, KeptSuffices DEF Next

\* The invariant: counts are right and every apartment minds its own objects.
THEOREM IInvAlways == Spec => []IInv
  BY IInvInit, IInvNext, PTL DEF Spec

\* Every count stays a natural number: no release takes a reference count or
\* DLL_REF_COUNT below 0.
THEOREM TypeCorrect == Spec => []TypeOK
  <1>1. IInv => TypeOK
    BY DEF IInv
  <1> QED
    BY <1>1, IInvAlways, PTL

\* The count of an object is the number of those who own a reference on it,
\* and what has been freed has no owner.
THEOREM CountsAreRight == Spec => []ReferencesCounted
  <1>1. IInv => ReferencesCounted
    BY DEF IInv
  <1> QED
    BY <1>1, IInvAlways, PTL

\* DllCanUnloadNow answers S_OK only when no object, lock or registered call is
\* left.
THEOREM StaysLoaded == Spec => []LoadedWhileInUse
  <1>1. ASSUME IInv, CanUnload
        PROVE  locks = 0 /\ Registered = {} /\ Leaving = {}
    <2>1. Registered \subseteq Objects /\ Leaving \subseteq Apartments
      BY DEF Registered, Leaving
    <2>2. /\ IsFiniteSet(Registered) /\ Cardinality(Registered) \in Nat
          /\ IsFiniteSet(Leaving) /\ Cardinality(Leaving) \in Nat
      BY <2>1, FS_Subset, FS_CardinalityType
    <2>3. locks = 0 /\ Cardinality(Registered) = 0 /\ Cardinality(Leaving) = 0
      BY <1>1, <2>2 DEF IInv, CountInv, CanUnload, TypeOK
    <2> QED
      BY <2>2, <2>3, FS_EmptySet
  <1>2. ASSUME IInv, NEW o \in Objects, held[o] # 0
        PROVE  o \in Registered
    <2>0. TypeOK /\ HomeInv /\ Null \notin Objects
      BY <1>2 DEF IInv
    <2>1. held[o] \in Nat /\ held[o] > 0
      BY <1>2, <2>0 DEF TypeOK
    <2>2. ASSUME NEW a \in Apartments PROVE heap[o].refs >= Share(a, Null, o)
      BY <1>2, Bound
    <2>3. ~Is(o, "free")
      <3>1. SUFFICES ASSUME Is(o, "free") PROVE FALSE
        OBVIOUS
      <3>2. heap[o].refs = 0
        BY <2>0, <3>1, FreeAddress
      <3>3. heap[o].refs = held[o] + Cardinality(Holders(o)) + Cardinality(Workers(o))
                           + Cardinality(Makers(o)) + Cardinality(Returners(o))
        BY <1>2, OwnersCount DEF IInv, ReferencesCounted
      <3>4. /\ Cardinality(Holders(o)) \in Nat /\ Cardinality(Workers(o)) \in Nat
            /\ Cardinality(Makers(o)) \in Nat /\ Cardinality(Returners(o)) \in Nat
        <4>1. Holders(o) \subseteq Objects /\ Workers(o) \subseteq Apartments
              /\ Makers(o) \subseteq Apartments /\ Returners(o) \subseteq Apartments
          BY DEF Holders, Workers, Makers, Returners
        <4> QED
          BY <4>1, CountsFor
      <3> QED
        BY <2>1, <3>2, <3>3, <3>4
    <2>4. PICK a \in Apartments : a = heap[o].home
      BY <2>0, <2>3 DEF HomeInv
    <2>5. FrameInv(a)
      BY <1>2 DEF IInv, ApartmentInv
    <2>6. ASSUME New(a, o) PROVE FALSE
      <3>1. heap[o].refs = 1
        BY <2>0, <2>5, <2>6 DEF New, FrameInv
      <3>2. heap[o].refs >= Share(a, Null, o)
        BY <2>2
      <3>3. Share(a, Null, o) >= held[o] + 1
        BY <2>0, <2>1, <2>6 DEF New, Share, At
      <3>4. Share(a, Null, o) \in Int
        BY <2>1 DEF Share
      <3> QED
        BY <2>1, <3>1, <3>2, <3>3, <3>4
    <2> QED
      BY <2>3, <2>4, <2>6 DEF Registered
  <1>3. ASSUME IInv, NEW a \in Apartments, call[a].pc \notin {"idle", "count", "return"}
        PROVE  a \in Leaving \/ This(a) \in Registered
    <2>1. CASE call[a].pc \in {"uncount", "uncountcred"}
      BY <2>1 DEF Leaving
    <2>2. CASE call[a].pc \in Working
      <3>1. This(a) \in Objects /\ heap[This(a)].home = a /\ ~Is(This(a), "free") /\ FrameInv(a)
            /\ (Made(a) # Null => At(a, "countcred")) /\ Null \notin Objects
        BY <1>3, <2>2, InHand
      <3>2. ~New(a, This(a))
        BY <1>3, <3>1 DEF New, FrameInv, At, Is
      <3> QED
        BY <3>1, <3>2 DEF Registered
    <2>3. call[a] \in Frames
      BY <1>3 DEF IInv, TypeOK
    <2> QED
      BY <1>3, <2>1, <2>2, <2>3 DEF Working, Frames
  <1>4. IInv => LoadedWhileInUse
    BY <1>1, <1>2, <1>3 DEF LoadedWhileInUse
  <1> QED
    BY <1>4, IInvAlways, PTL

\* Once the host has given everything back and every call has returned, every
\* object has been freed and DLL_REF_COUNT is 0.
THEOREM NothingIsLeft == Spec => []NothingLeaks
  <1>1. ASSUME IInv, Quiet, locks = 0, \A o \in Objects : held[o] = 0
        PROVE  Live = {} /\ CanUnload
    <2>0. TypeOK /\ HomeInv /\ Null \notin Objects
      BY <1>1 DEF IInv
    <2>1. \A a \in Apartments : /\ call[a].pc = "idle" /\ ApartmentInv(a)
                                /\ call[a].this = Null /\ call[a].made = Null /\ call[a].out = Null
      <3> SUFFICES ASSUME NEW a \in Apartments
                   PROVE  /\ call[a].pc = "idle" /\ ApartmentInv(a)
                          /\ call[a].this = Null /\ call[a].made = Null /\ call[a].out = Null
        OBVIOUS
      <3>1. call[a].pc = "idle" /\ ApartmentInv(a)
        BY <1>1 DEF Quiet, IInv
      <3>2. call[a] = NoCall
        BY <3>1 DEF ApartmentInv, FrameInv, At
      <3> QED
        BY <3>1, <3>2 DEF NoCall
    <2>2. ASSUME NEW o \in Live
          PROVE  o \in Objects /\ heap[o].home \in Apartments /\ ObjectInv(heap[o].home, o)
      <3>1. o \in Objects /\ ~Is(o, "free")
        BY <2>2 DEF Live
      <3>2. heap[o].home \in Apartments
        BY <2>0, <3>1 DEF HomeInv
      <3> QED
        BY <2>1, <3>1, <3>2 DEF ApartmentInv
    <2>3. ASSUME NEW o \in Live
          PROVE  \E p \in Live : Slot(p) = o
      <3>1. o \in Objects /\ heap[o].refs # 0
        BY <2>1, <2>2 DEF ObjectInv, Ends, At, Ending
      <3>2. heap[o].refs = held[o] + Cardinality(Holders(o)) + Cardinality(Workers(o))
                           + Cardinality(Makers(o)) + Cardinality(Returners(o))
        BY <1>1, <3>1, OwnersCount DEF IInv, ReferencesCounted
      <3>3. Workers(o) = {} /\ Makers(o) = {} /\ Returners(o) = {}
        BY <2>0, <2>1, <3>1 DEF Workers, Makers, Returners
      <3>4. held[o] = 0 /\ Cardinality({}) = 0
        BY <1>1, <3>1, FS_EmptySet
      <3>5. Cardinality(Holders(o)) # 0
        BY <3>1, <3>2, <3>3, <3>4
      <3>6. PICK p \in Objects : Slot(p) = o
        BY <3>4, <3>5 DEF Holders, Slot
      <3>7. p \in Live
        <4>1. Is(p, "free") => heap[p].slot = Null
          BY <2>0, FreeAddress
        <4> QED
          BY <2>0, <3>1, <3>6, <4>1 DEF Live, Slot
      <3> QED
        BY <3>6, <3>7
    <2>4. ASSUME NEW p \in Live, NEW o \in Live, Slot(p) = o
          PROVE  Is(p, "provider") /\ Is(o, "credential")
      <3>1. heap[p].refs # 0 /\ heap[p].refs \in Nat
        BY <2>0, <2>1, <2>2 DEF ObjectInv, Ends, At, Ending, TypeOK, Structs
      <3>2. Slot(p) # Null
        BY <2>0, <2>2, <2>4
      <3> QED
        BY <2>2, <2>4, <3>1, <3>2 DEF ObjectInv, Keeps
    <2>5. Live = {}
      <3>1. SUFFICES ASSUME NEW o \in Live PROVE FALSE
        OBVIOUS
      <3>2. PICK p \in Live : Slot(p) = o
        BY <2>3
      <3>3. PICK q \in Live : Slot(q) = p
        BY <2>3
      <3> QED
        BY <2>4, <3>2, <3>3 DEF Is
    <2>6. Registered = {} /\ Leaving = {}
      BY <2>1, <2>5 DEF Registered, Leaving, Live
    <2>7. dllRefs = locks + Cardinality({}) + Cardinality({})
      BY <1>1, <2>6 DEF IInv, CountInv
    <2> QED
      BY <1>1, <2>5, <2>7, FS_EmptySet DEF CanUnload
  <1>2. IInv => NothingLeaks
    BY <1>1 DEF NothingLeaks
  <1> QED
    BY <1>2, IInvAlways, PTL

\* A credential always has the flags its living provider was given last.
THEOREM FlagsArrive == Spec => []FlagsReachCredential
  <1>1. ASSUME IInv, NEW p \in Live, heap[p].slot # Null, heap[p].refs > 0
        PROVE  heap[heap[p].slot].flags = heap[p].flags
    <2>1. p \in Objects /\ heap[p].home \in Apartments
      BY <1>1 DEF Live, IInv, HomeInv
    <2>2. ObjectInv(heap[p].home, p)
      BY <1>1, <2>1 DEF IInv, ApartmentInv
    <2> QED
      BY <1>1, <2>2 DEF ObjectInv, Keeps, Slot
  <1>2. IInv => FlagsReachCredential
    BY <1>1 DEF FlagsReachCredential
  <1> QED
    BY <1>2, IInvAlways, PTL

\* A living provider never loses or changes its credential.
THEOREM CredentialStays == Spec => OneCredential
  <1> DEFINE Stays(p) == heap[p].slot # Null => heap'[p].slot = heap[p].slot \/ heap'[p] = Freed
  <1>1. ASSUME IInv, [Next]_vars, NEW p \in Live PROVE Stays(p)
    <2>0. TypeOK /\ p \in Objects /\ ~Is(p, "free") /\ heap[p] \in Structs
      BY <1>1 DEF IInv, TypeOK, Live
    <2>1. CASE heap' = heap
      BY <2>1
    <2>2. ASSUME NEW o, NEW n, heap' = [heap EXCEPT ![o].refs = n] PROVE Stays(p)
      BY <2>0, <2>2 DEF TypeOK, Structs
    <2>3. ASSUME NEW o, NEW n, heap' = [heap EXCEPT ![o] = n], Is(o, "free") \/ n = Freed
          PROVE  Stays(p)
      BY <2>0, <2>3 DEF TypeOK
    <2>4. ASSUME NEW a \in Apartments, CountCredential(a) PROVE Stays(p)
      <3>1. heap[This(a)].slot = Null
        BY <1>1, <2>4, InHand DEF CountCredential, At, Working, FrameInv, Slot
      <3>2. heap' = [heap EXCEPT ![This(a)].slot = Made(a)]
        BY <2>4 DEF CountCredential, This, Made
      <3> QED
        BY <2>0, <3>1, <3>2 DEF TypeOK, Structs
    <2>5. ASSUME NEW a \in Apartments, NEW q \in Objects, NEW c \in Objects, NEW give \in BOOLEAN,
                 NEW h, Ensure(a, q, c, give, h), h \in [Objects -> Structs],
                 h[p].slot = heap[p].slot
          PROVE  Stays(p)
      <3>1. heap' = h \/ (heap' = [h EXCEPT ![c] = NewCredential(a, h[q].flags)] /\ c # p)
        BY <2>0, <2>5 DEF Ensure
      <3> QED
        BY <2>0, <2>5, <3>1
    <2>6. ASSUME NEW a \in Apartments, Step(a) PROVE Stays(p)
      <3>1. CASE Count(a) \/ UncountCredential(a) \/ Uncount(a) \/ Return(a)
        BY <2>1, <3>1 DEF Count, UncountCredential, Uncount, Return
      <3>2. CASE Query(a)
        <4>1. heap' = heap \/ heap' = [heap EXCEPT ![call[a].this].refs = heap[call[a].this].refs + 1]
          BY <2>0, <3>2 DEF Query, TypeOK
        <4> QED
          BY <2>1, <2>2, <4>1
      <3>3. CASE Sub(a)
        BY <2>2, <3>3 DEF Sub
      <3>4. CASE SubCredential(a)
        BY <2>2, <3>4 DEF SubCredential
      <3>5. CASE FreeCredential(a) \/ Free(a)
        BY <2>3, <3>5 DEF FreeCredential, Free
      <3>6. CASE Give(a)
        BY <2>2, <3>6 DEF Give
      <3> QED
        BY <2>4, <2>6, <3>1, <3>2, <3>3, <3>4, <3>5, <3>6 DEF Step
    <2>7. ASSUME NEW a \in Apartments, Host(a) PROVE Stays(p)
      <3>1. ASSUME NEW o, NEW kind, NEW known, Construct(a, o, kind, known) PROVE Stays(p)
        BY <2>3, <3>1 DEF Construct
      <3>2. CASE \E o \in Objects, known \in BOOLEAN : DllGetClassObject(a, o, known)
        BY <3>1, <3>2 DEF DllGetClassObject
      <3>3. CASE \E f, o \in Objects, known \in BOOLEAN : CreateInstance(a, f, o, known)
        BY <3>1, <3>3 DEF CreateInstance
      <3>4. CASE \E o \in Objects : AddRef(a, o) \/ Release(a, o)
        BY <2>1, <2>2, <3>4 DEF AddRef, Release
      <3>5. CASE \E f \in Objects, lock \in BOOLEAN : LockServer(a, f, lock)
        BY <2>1, <3>5 DEF LockServer
      <3>6. ASSUME NEW q \in Objects, NEW c \in Objects, NEW f \in Flags, SetUsageScenario(a, q, c, f)
            PROVE  Stays(p)
        <4>1. Flagged(q, SetFlags(q, f))
          BY <2>0, SetFlagsFlags
        <4> QED
          BY <2>0, <2>5, <3>6, <4>1 DEF SetUsageScenario, Flagged
      <3>7. CASE \E q, c \in Objects : GetCredentialCount(a, q, c) \/ GetCredentialAt(a, q, c)
        <4>1. PICK q \in Objects, c \in Objects, give \in BOOLEAN : Ensure(a, q, c, give, heap)
          BY <3>7 DEF GetCredentialCount, GetCredentialAt
        <4> QED
          BY <2>0, <2>5, <4>1 DEF TypeOK
      <3> QED
        BY <2>7, <3>2, <3>3, <3>4, <3>5, <3>6, <3>7 DEF Host
    <2>8. CASE UNCHANGED vars
      BY <2>1, <2>8 DEF vars
    <2> QED
      BY <1>1, <2>6, <2>7, <2>8 DEF Next
  <1>2. IInv /\ [Next]_vars => [\A p \in Live : Stays(p)]_vars
    BY <1>1
  <1> QED
    BY <1>2, IInvAlways, PTL DEF Spec, OneCredential
=============================================================================
