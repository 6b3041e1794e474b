-------------------------- MODULE AuthData_proofs ---------------------------
(***************************************************************************)
(* Theorems about SettingsReading and AuthData: what an iterator and an    *)
(* AgAuthData return agrees with single lookups.                           *)
(***************************************************************************)
EXTENDS AuthData, FiniteSetTheorems, TLAPS

LEMMA Assumptions ==
  /\ IsFiniteSet(Services)
  /\ Global \in Sections /\ NoValue \notin Values
  /\ Template \in [Sections -> Settings]
  /\ Prefixes \subseteq SUBSET Keys
  /\ Method \in Keys
  /\ Parameters \in [Values -> SUBSET (Keys \ {Method})]
BY ReadingAssumption, AuthAssumption DEF Sections

LEMMA SectionsAreFinite ==
  ASSUME NEW S \in SUBSET Sections
  PROVE  IsFiniteSet(S) /\ Cardinality(S) \in Nat
<1>1. IsFiniteSet(Sections)
  BY Assumptions, FS_AddElement DEF Sections
<1> QED
  BY <1>1, FS_Subset, FS_CardinalityType

\* A value that can be looked up, or none.
LEMMA LookupTypes ==
  ASSUME NEW tables \in [Sections -> Settings], NEW s \in Sections,
         NEW k \in Keys
  PROVE  /\ tables[s][k] \in Values \cup {NoValue}
         /\ Defaults(s) \in Settings
         /\ Lookup(tables, s, k) \in Values \cup {NoValue}
<1>1. Nothing \in Settings
  BY DEF Nothing, Settings
<1>2. Defaults(s) \in Settings
  BY <1>1, Assumptions DEF Defaults
<1> QED
  BY <1>2 DEF Lookup, Settings
-----------------------------------------------------------------------------
(* What the steps do to the tables and to the iterator.                    *)

\* Sections are read: those that have an entry stay, and so do those that
\* are not asked for.
LEMMA ReadSectionsEffect ==
  ASSUME ReadingTypeOK, NEW of \in SUBSET Sections, ReadSections(of)
  PROVE  /\ entries' = entries \cup of /\ entries' \subseteq Sections
         /\ cache' \in [Sections -> Settings]
         /\ locks' \in Nat
         /\ \A s \in Sections :
              s \notin of \/ s \in entries => cache'[s] = cache[s]
<1>1. PICK failed \in SUBSET (of \ entries) :
        /\ Cardinality(failed) <= locks
        /\ locks' = locks - Cardinality(failed)
        /\ entries' = entries \cup of
        /\ cache' = [s \in Sections |->
                       CASE s \in of \ (entries \cup failed) -> rows[s]
                         [] s \in failed -> Nothing
                         [] OTHER -> cache[s]]
  BY DEF ReadSections
<1>2. locks' \in Nat
  <2>1. Cardinality(failed) \in Nat
    BY SectionsAreFinite
  <2> QED
    BY <1>1, <2>1 DEF ReadingTypeOK
<1>3. ASSUME NEW s \in Sections
      PROVE  /\ cache'[s] \in Settings
             /\ s \notin of \/ s \in entries => cache'[s] = cache[s]
  <2>1. rows[s] \in Settings /\ cache[s] \in Settings /\ Nothing \in Settings
    BY DEF ReadingTypeOK, Nothing, Settings
  <2>2. CASE s \in of \ (entries \cup failed)
    BY <1>1, <2>1, <2>2
  <2>3. CASE s \in failed
    BY <1>1, <2>1, <2>3
  <2>4. CASE s \notin of \ (entries \cup failed) /\ s \notin failed
    BY <1>1, <2>1, <2>4
  <2> QED
    BY <2>2, <2>3, <2>4
<1>4. cache' \in [Sections -> Settings]
  BY <1>1, <1>3
<1> QED
  BY <1>1, <1>2, <1>3, <1>4 DEF ReadingTypeOK

LEMMA NoIteratorType == NoIterator \in Iterator /\ NoIterator.stage = "none"
BY DEF NoIterator, Iterator, Sections
-----------------------------------------------------------------------------
(* The invariant of an iteration.                                          *)

\* The keys with the prefix of the iterator that the account has set in
\* section s, and those that have only a default there.
OwnKeys(s)     == KeysOf(cache[s]) \cap iter.prefix
DefaultKeys(s) == (KeysOf(Defaults(s)) \cap iter.prefix) \ KeysOf(cache[s])

Pairs(values, keys) == {<<k, values[k]>> : k \in keys}

\* A section without an entry has an empty table.
EmptyInv == \A s \in Sections \ entries : cache[s] = Nothing

\* An iterator that nothing has disturbed has returned what is not left of
\* the table it walks, and of those it has walked before.
IterInv ==
  ~iter.disturbed =>
    /\ iter.stage = "unset" => OwnKeys(iter.section) = {} /\ iter.seen = {}
    /\ iter.stage = "account" =>
         /\ iter.left \subseteq KeysOf(cache[iter.section])
         /\ iter.seen = Pairs(cache[iter.section],
                              OwnKeys(iter.section) \ iter.left)
    /\ iter.stage = "service" =>
         /\ iter.from = iter.section
         /\ iter.left \subseteq KeysOf(Defaults(iter.section))
         /\ iter.seen = Pairs(cache[iter.section], OwnKeys(iter.section))
                          \cup Pairs(Defaults(iter.section),
                                 DefaultKeys(iter.section) \ iter.left)
    /\ iter.stage = "done" =>
         iter.seen = Pairs(cache[iter.section], OwnKeys(iter.section))
                       \cup Pairs(Defaults(iter.section),
                                  DefaultKeys(iter.section))

\* What is left to return are keys of the table that is walked, disturbed or
\* not, so that there is a value to return for each.
LeftInv ==
  /\ iter.stage = "account" => iter.left \subseteq KeysOf(cache[iter.section])
  /\ iter.stage = "service" => iter.left \subseteq KeysOf(Template[iter.from])

ReadingInv == ReadingTypeOK /\ EmptyInv /\ LeftInv /\ IterInv

\* What an undisturbed iterator has returned in the end is what lookups give.
LEMMA IterationIsRight ==
  ASSUME ReadingTypeOK, IterInv
  PROVE  IterationMatchesLookups
<1> SUFFICES ASSUME iter.stage = "done", ~iter.disturbed
             PROVE  IterationMatchesLookups
  BY DEF IterationMatchesLookups
<1> DEFINE s == iter.section
<1>1. /\ s \in Sections /\ iter.prefix \subseteq Keys
      /\ cache \in [Sections -> Settings]
  BY DEF ReadingTypeOK, Iterator
<1>2. iter.seen = Pairs(cache[s], OwnKeys(s))
                    \cup Pairs(Defaults(s), DefaultKeys(s))
  BY DEF IterInv
<1>3. \A k \in Keys :
        Lookup(cache, s, k) = IF cache[s][k] # NoValue THEN cache[s][k]
                              ELSE Defaults(s)[k]
  BY DEF Lookup
<1>4. \A k : /\ k \in OwnKeys(s) <=>
                  k \in iter.prefix /\ cache[s][k] # NoValue
             /\ k \in DefaultKeys(s) <=>
                  /\ k \in iter.prefix /\ cache[s][k] = NoValue
                  /\ Defaults(s)[k] # NoValue
  BY <1>1 DEF OwnKeys, DefaultKeys, KeysOf
<1> HIDE DEF s
<1>5. iter.seen = {<<k, Lookup(cache, s, k)>> : k \in
                     {k \in iter.prefix : Lookup(cache, s, k) # NoValue}}
  BY <1>1, <1>2, <1>3, <1>4 DEF Pairs
<1> QED
  BY <1>5 DEF s, IterationMatchesLookups

\* An iterator that stays finds its tables unchanged.
LEMMA IterationStays ==
  ASSUME LeftInv, IterInv, iter' = iter,
         iter.stage # "none" =>
           /\ cache'[iter.section] = cache[iter.section]
           /\ ~iter.disturbed =>
                Defaults(iter.section)' = Defaults(iter.section)
  PROVE  LeftInv' /\ IterInv'
<1>1. CASE iter.stage = "none"
  BY <1>1 DEF IterInv, LeftInv
<1>2. CASE iter.stage # "none"
  <2>1. /\ OwnKeys(iter.section)' = OwnKeys(iter.section)
        /\ KeysOf(cache[iter.section])' = KeysOf(cache[iter.section])
        /\ KeysOf(Template[iter.from])' = KeysOf(Template[iter.from])
    BY <1>2 DEF OwnKeys, KeysOf
  <2>2. LeftInv'
    BY <2>1 DEF LeftInv
  <2>3. CASE ~iter.disturbed
    <3>1. /\ DefaultKeys(iter.section)' = DefaultKeys(iter.section)
          /\ KeysOf(Defaults(iter.section))' = KeysOf(Defaults(iter.section))
      BY <1>2, <2>3 DEF DefaultKeys, KeysOf
    <3> QED
      BY <1>2, <2>1, <2>2, <2>3, <3>1 DEF IterInv, Pairs
  <2> QED
    BY <2>2, <2>3 DEF IterInv
<1> QED
  BY <1>1, <1>2

\* The table of section s changes; an iterator that walks it is disturbed.
LEMMA IterationDisturbed ==
  ASSUME ReadingTypeOK, LeftInv, IterInv, NEW s \in Sections,
         cache' \in [Sections -> Settings], Disturb(s, cache'),
         iter.section # s => cache'[iter.section] = cache[iter.section],
         Readable' = Readable
  PROVE  iter' \in Iterator /\ LeftInv' /\ IterInv'
<1>1. iter \in Iterator
  BY DEF ReadingTypeOK
<1>2. CASE ~Walks(s)
  <2>1. iter' = iter /\ (iter.stage = "none" \/ iter.section # s)
    BY <1>2 DEF Disturb, Walks
  <2>2. Defaults(iter.section)' = Defaults(iter.section)
    BY <2>1 DEF Defaults, Nothing
  <2> QED
    BY <1>1, <2>1, <2>2, IterationStays
<1>3. CASE Walks(s)
  <2>1. PICK left :
          /\ left = iter.left
             \/ /\ iter.stage = "account"
                /\ left \subseteq KeysOf(cache'[s])
          /\ iter.stage = "account" /\ left = iter.left
               => KeysOf(cache'[s]) = KeysOf(cache[s])
                  \/ left \subseteq KeysOf(cache'[s])
          /\ iter' = [iter EXCEPT !.left = left, !.disturbed = TRUE]
    BY <1>3 DEF Disturb
  <2>2. iter.section = s
    BY <1>3 DEF Walks
  <2>3. left \in SUBSET Keys
    BY <1>1, <2>1 DEF KeysOf, Iterator
  <2>4. /\ iter' \in Iterator /\ iter'.left = left /\ iter'.disturbed = TRUE
        /\ iter'.stage = iter.stage /\ iter'.section = s
        /\ iter'.from = iter.from
    BY <1>1, <2>1, <2>2, <2>3 DEF Iterator
  <2>5. iter.stage = "account" => left \subseteq KeysOf(cache'[s])
    BY <2>1, <2>2 DEF LeftInv
  <2>6. iter.stage = "service" => left \subseteq KeysOf(Template[iter.from])
    BY <2>1 DEF LeftInv
  <2>7. LeftInv'
    BY <2>4, <2>5, <2>6 DEF LeftInv, KeysOf
  <2> QED
    BY <2>4, <2>7 DEF IterInv
<1> QED
  BY <1>2, <1>3

-----------------------------------------------------------------------------
(* Each step keeps it.                                                     *)

LEMMA SelectKeeps ==
  ASSUME ReadingInv, NEW s \in Sections, SelectService(s)
  PROVE  ReadingInv'
<1>1. /\ ReadingTypeOK /\ EmptyInv /\ LeftInv /\ IterInv
      /\ selected' = s /\ UNCHANGED <<rows, installed, loaded>>
  BY DEF ReadingInv, SelectService, fileVars
<1>2. /\ entries' = entries \cup {s} /\ entries' \subseteq Sections
      /\ cache' \in [Sections -> Settings] /\ locks' \in Nat
      /\ \A t \in Sections : t # s \/ s \in entries => cache'[t] = cache[t]
  <2>1. ReadSections({s}) /\ {s} \in SUBSET Sections
    BY DEF SelectService
  <2> QED
    BY <1>1, <2>1, ReadSectionsEffect
<1>3. iter.section \in Sections
  BY <1>1 DEF ReadingTypeOK, Iterator
<1>4. Readable' = Readable
  BY <1>1 DEF Readable
<1>5. iter' \in Iterator /\ LeftInv' /\ IterInv'
  <2>1. CASE s \in entries
    <3>1. iter' = iter /\ iter \in Iterator
      BY <1>1, <2>1 DEF SelectService, ReadingTypeOK
    <3>2. Defaults(iter.section)' = Defaults(iter.section)
      BY <1>4, <3>1 DEF Defaults, Nothing
    <3> QED
      BY <1>1, <1>2, <1>3, <2>1, <3>1, <3>2, IterationStays
  <2>2. CASE s \notin entries
    <3>1. Disturb(s, cache')
      BY <2>2 DEF SelectService
    <3> QED
      BY <1>1, <1>2, <1>3, <1>4, <3>1, IterationDisturbed
  <2> QED
    BY <2>1, <2>2
<1>6. ReadingTypeOK' /\ EmptyInv'
  BY <1>1, <1>2, <1>5 DEF ReadingTypeOK, EmptyInv, Nothing
<1> QED
  BY <1>5, <1>6 DEF ReadingInv

LEMMA GetVariantKeeps ==
  ASSUME ReadingInv, NEW k \in Keys, GetVariant(k)
  PROVE  ReadingInv'
<1>1. /\ ReadingTypeOK /\ EmptyInv /\ LeftInv /\ IterInv
      /\ UNCHANGED <<rows, entries, cache, selected, installed, iter, locks>>
      /\ loaded' = loaded \cup ({selected} \cap installed)
  BY DEF ReadingInv, GetVariant, accountVars
<1>2. Defaults(iter.section)' = Defaults(iter.section)
  <2>1. Readable' = Readable
    BY <1>1 DEF Readable
  <2> QED
    BY <1>1, <2>1 DEF Defaults
<1>3. LeftInv' /\ IterInv'
  BY <1>1, <1>2, IterationStays
<1> QED
  BY <1>1, <1>3 DEF ReadingInv, ReadingTypeOK, EmptyInv, Nothing

\* The iterator of a section whose data file comes or goes is disturbed.
LEMMA InstallKeeps ==
  ASSUME ReadingInv, NEW s \in Sections, Install(s)
  PROVE  ReadingInv'
<1>1. /\ ReadingTypeOK /\ EmptyInv /\ LeftInv /\ IterInv
      /\ UNCHANGED <<rows, entries, cache, selected, loaded, locks>>
      /\ installed' = IF s \in installed THEN installed \ {s}
                      ELSE installed \cup {s}
      /\ iter' = [iter EXCEPT !.disturbed = @ \/ Walks(s)]
  BY DEF ReadingInv, Install, accountVars
<1>2. /\ iter' \in Iterator
      /\ Walks(s) => iter'.disturbed = TRUE
      /\ ~Walks(s) => iter' = iter
      /\ iter'.stage = iter.stage /\ iter'.section = iter.section
      /\ iter'.from = iter.from /\ iter'.left = iter.left
  <2>1. iter \in Iterator /\ Walks(s) \in BOOLEAN
    BY <1>1 DEF ReadingTypeOK, Walks
  <2> QED
    BY <1>1, <2>1 DEF Iterator
<1>3. LeftInv' /\ IterInv'
  <2>1. CASE Walks(s)
    BY <1>1, <1>2, <2>1 DEF LeftInv, IterInv, KeysOf
  <2>2. CASE ~Walks(s)
    <3>1. ASSUME iter.stage # "none"
          PROVE  Defaults(iter.section)' = Defaults(iter.section)
      <4>1. iter.section # s
        BY <2>2, <3>1 DEF Walks
      <4>2. iter.section \in Readable' <=> iter.section \in Readable
        BY <1>1, <4>1 DEF Readable
      <4> QED
        BY <1>2, <2>2, <4>2 DEF Defaults, Nothing
    <3> QED
      BY <1>1, <1>2, <2>2, <3>1, IterationStays
  <2> QED
    BY <2>1, <2>2
<1>4. ReadingTypeOK' /\ EmptyInv'
  BY <1>1, <1>2 DEF ReadingTypeOK, EmptyInv, Nothing
<1> QED
  BY <1>3, <1>4 DEF ReadingInv

LEMMA ChangeKeeps ==
  ASSUME ReadingInv, NEW s \in Sections, NEW k \in Keys,
         NEW v \in Values \cup {NoValue}, Change(s, k, v)
  PROVE  ReadingInv'
<1>1. /\ ReadingTypeOK /\ EmptyInv /\ LeftInv /\ IterInv
      /\ UNCHANGED <<entries, selected, installed, loaded, locks>>
      /\ rows' = [rows EXCEPT ![s][k] = v]
      /\ cache' = IF s \in entries THEN [cache EXCEPT ![s][k] = v] ELSE cache
      /\ Disturb(s, cache')
  BY DEF ReadingInv, Change, fileVars
<1>2. /\ rows' \in [Sections -> Settings] /\ cache' \in [Sections -> Settings]
      /\ \A t \in Sections : t # s \/ s \notin entries => cache'[t] = cache[t]
  BY <1>1 DEF ReadingTypeOK, Settings
<1>3. iter.section \in Sections
  BY <1>1 DEF ReadingTypeOK, Iterator
<1>4. iter' \in Iterator /\ LeftInv' /\ IterInv'
  <2>1. Readable' = Readable
    BY <1>1 DEF Readable
  <2> QED
    BY <1>1, <1>2, <1>3, <2>1, IterationDisturbed
<1>5. ReadingTypeOK' /\ EmptyInv'
  BY <1>1, <1>2, <1>4 DEF ReadingTypeOK, EmptyInv, Nothing
<1> QED
  BY <1>4, <1>5 DEF ReadingInv
-----------------------------------------------------------------------------
(* Iterators.                                                              *)

LEMMA BeginKeeps ==
  ASSUME ReadingInv, NEW prefix \in Prefixes, BeginIteration(prefix)
  PROVE  ReadingInv'
<1>1. /\ ReadingTypeOK /\ EmptyInv /\ LeftInv /\ IterInv
      /\ UNCHANGED <<rows, entries, cache, selected, installed, loaded, locks>>
      /\ selected \in Sections /\ prefix \in SUBSET Keys
  BY Assumptions
  DEF ReadingInv, BeginIteration, accountVars, fileVars, ReadingTypeOK
<1> DEFINE stage == IF selected \in entries THEN "account" ELSE "unset"
           own   == KeysOf(cache[selected])
<1>2. own \in SUBSET Keys /\ stage \in {"account", "unset"}
  BY DEF KeysOf
<1>3. iter' = [stage |-> stage, section |-> selected, from |-> Global,
               prefix |-> prefix, left |-> own, seen |-> {},
               disturbed |-> FALSE]
  BY DEF BeginIteration, NoIterator
<1>4. stage = "unset" => own = {}
  BY <1>1 DEF EmptyInv, KeysOf, Nothing
<1> HIDE DEF stage, own
<1>5. /\ iter' \in Iterator
      /\ iter'.stage = stage /\ iter'.section = selected
      /\ iter'.left = own /\ iter'.seen = {} /\ iter'.prefix = prefix
  BY <1>1, <1>2, <1>3, Assumptions DEF Iterator
<1>6. ReadingTypeOK' /\ EmptyInv'
  BY <1>1, <1>5 DEF ReadingTypeOK, EmptyInv, Nothing
<1>7. IterInv'
  <2>1. /\ KeysOf(cache[iter.section])' = own
        /\ OwnKeys(iter.section)' = own \cap prefix
    BY <1>1, <1>5 DEF own, KeysOf, OwnKeys
  <2>2. Pairs(cache'[selected], {}) = {}
    BY DEF Pairs
  <2>3. OwnKeys(iter.section)' \ iter'.left = {}
    BY <1>5, <2>1
  <2> QED
    BY <1>1, <1>2, <1>4, <1>5, <2>1, <2>2, <2>3 DEF IterInv
<1>8. LeftInv'
  <2>1. KeysOf(cache[iter.section])' = own
    BY <1>1, <1>5 DEF own, KeysOf
  <2> QED
    BY <1>2, <1>5, <2>1 DEF LeftInv
<1> QED
  BY <1>6, <1>7, <1>8 DEF ReadingInv

LEMMA EndKeeps ==
  ASSUME ReadingInv, EndIteration
  PROVE  ReadingInv'
<1>1. /\ ReadingTypeOK /\ EmptyInv /\ LeftInv /\ IterInv
      /\ UNCHANGED <<rows, entries, cache, selected, installed, loaded, locks>>
      /\ iter' = NoIterator
  BY DEF ReadingInv, EndIteration, accountVars, fileVars
<1>2. LeftInv' /\ IterInv'
  BY <1>1, NoIteratorType DEF LeftInv, IterInv
<1> QED
  BY <1>1, <1>2, NoIteratorType
  DEF ReadingInv, ReadingTypeOK, EmptyInv, Nothing

\* A call that returns one of the defaults, or the end of them.  "it" is the
\* iterator after it has turned to them.
LEMMA DefaultsStep ==
  ASSUME ReadingTypeOK, NEW it \in Iterator, NEW s \in Sections,
         it.section = s, it.stage = "service", it.from = s, selected = s,
         it.prefix = iter.prefix,
         it.left \subseteq KeysOf(Defaults(s)),
         it.seen = Pairs(cache[s], OwnKeys(s))
                     \cup Pairs(Defaults(s), DefaultKeys(s) \ it.left),
         UNCHANGED cache, Defaults(s)' = Defaults(s),
         \/ \E k \in Choice(it) :
              iter' = [it EXCEPT !.seen = @ \cup {<<k, Template[s][k]>>},
                                 !.left = @ \ {k}, !.disturbed = FALSE]
         \/ /\ Choice(it) = {}
            /\ iter' = [it EXCEPT !.stage = "done", !.left = {},
                                  !.disturbed = FALSE]
  PROVE  IterInv'
<1>1. Choice(it) = (it.left \cap it.prefix) \ KeysOf(cache[s])
  BY DEF Choice, NotOverridden
<1>2. it.prefix \subseteq Keys
  BY DEF Iterator
<1>3. ASSUME NEW p, iter'.prefix = iter.prefix, iter'.section = s
      PROVE  /\ OwnKeys(iter.section)' = OwnKeys(s)
             /\ DefaultKeys(iter.section)' = DefaultKeys(s)
             /\ cache[iter.section]' = cache[s]
             /\ Defaults(iter.section)' = Defaults(s)
  <2>1. Defaults(iter.section)' = Defaults(s)
    BY <1>3
  <2> QED
    BY <1>3, <2>1 DEF OwnKeys, DefaultKeys, KeysOf
<1>4. ASSUME NEW k \in Choice(it),
             iter' = [it EXCEPT !.seen = @ \cup {<<k, Template[s][k]>>},
                                !.left = @ \ {k}, !.disturbed = FALSE]
      PROVE  IterInv'
  <2>1. /\ k \in DefaultKeys(s) /\ k \in it.left
        /\ Template[s][k] = Defaults(s)[k]
    <3>1. k \in it.left /\ k \in it.prefix /\ k \notin KeysOf(cache[s])
      BY <1>1
    <3>2. k \in KeysOf(Defaults(s))
      BY <3>1
    <3>3. s \in Readable
      BY <3>2 DEF Defaults, KeysOf, Nothing
    <3> QED
      BY <3>1, <3>2, <3>3 DEF DefaultKeys, Defaults
  <2>2. /\ iter'.stage = "service" /\ iter'.from = s /\ iter'.section = s
        /\ iter'.prefix = iter.prefix
        /\ iter'.left = it.left \ {k}
        /\ iter'.seen = it.seen \cup {<<k, Template[s][k]>>}
    BY <1>4 DEF Iterator
  <2>3. Pairs(Defaults(s), DefaultKeys(s) \ it.left)
          \cup {<<k, Template[s][k]>>}
        = Pairs(Defaults(s), DefaultKeys(s) \ iter'.left)
    <3>1. DefaultKeys(s) \ iter'.left = (DefaultKeys(s) \ it.left) \cup {k}
      BY <2>1, <2>2
    <3> QED
      BY <2>1, <3>1 DEF Pairs
  <2>4. iter'.seen = Pairs(cache[s], OwnKeys(s))
                       \cup Pairs(Defaults(s), DefaultKeys(s) \ iter'.left)
    BY <2>2, <2>3
  <2> QED
    BY <1>3, <2>2, <2>4 DEF IterInv
<1>5. ASSUME Choice(it) = {},
             iter' = [it EXCEPT !.stage = "done", !.left = {},
                                !.disturbed = FALSE]
      PROVE  IterInv'
  <2>1. /\ iter'.stage = "done" /\ iter'.section = s
        /\ iter'.prefix = iter.prefix /\ iter'.seen = it.seen
    BY <1>5 DEF Iterator
  <2>2. DefaultKeys(s) \ it.left = DefaultKeys(s)
    BY <1>1, <1>5 DEF DefaultKeys
  <2> QED
    BY <1>3, <2>1, <2>2 DEF IterInv
<1> QED
  BY <1>4, <1>5

\* An iterator that goes on with the table it walks, or with the defaults.
LEMMA IterationNextKeeps ==
  ASSUME ReadingInv, IterationNext
  PROVE  ReadingInv'
<1> DEFINE turns   == \/ iter.stage = "unset"
                      \/ /\ iter.stage = "account"
                         /\ iter.left \cap iter.prefix = {}
           it      == IF ~turns THEN iter
                      ELSE [iter EXCEPT !.from = selected, !.stage = "service",
                                        !.left = KeysOf(Defaults(selected))]
           value(k) == IF it.stage = "account" THEN cache[it.section][k]
                       ELSE Template[it.from][k]
           strayed == iter.disturbed \/ selected # iter.section
<1>1. /\ ReadingTypeOK /\ EmptyInv /\ LeftInv /\ IterInv
      /\ UNCHANGED <<rows, entries, cache, selected, installed, locks>>
      /\ loaded' = IF turns THEN loaded \cup ({selected} \cap installed)
                   ELSE loaded
      /\ iter.stage \in {"account", "unset", "service"}
      /\ \/ \E k \in Choice(it) :
              iter' = [it EXCEPT !.seen = @ \cup {<<k, value(k)>>},
                                 !.left = @ \ {k}, !.disturbed = strayed]
         \/ /\ Choice(it) = {}
            /\ iter' = [it EXCEPT !.stage = "done", !.left = {},
                                  !.disturbed = strayed]
  BY DEF ReadingInv, IterationNext, accountVars
<1>2. /\ iter \in Iterator /\ selected \in Sections
      /\ cache \in [Sections -> Settings] /\ strayed \in BOOLEAN
  BY <1>1 DEF ReadingTypeOK, Iterator
<1>3. /\ it \in Iterator /\ it.section = iter.section
      /\ it.prefix = iter.prefix /\ it.seen = iter.seen
      /\ ~turns => it = iter
      /\ turns => /\ it.stage = "service" /\ it.from = selected
                  /\ it.left = KeysOf(Defaults(selected))
  <2>1. KeysOf(Defaults(selected)) \in SUBSET Keys
    BY DEF KeysOf
  <2> QED
    BY <1>2, <2>1 DEF Iterator
<1>4. /\ it.stage = "account" => it.left \subseteq KeysOf(cache[it.section])
      /\ it.stage = "service" => it.left \subseteq KeysOf(Template[it.from])
      /\ it.stage \in {"account", "service"}
  <2>1. KeysOf(Defaults(selected)) \subseteq KeysOf(Template[selected])
    BY DEF KeysOf, Defaults, Nothing
  <2> QED
    BY <1>1, <1>3, <2>1 DEF LeftInv
<1>5. Readable' = Readable
  BY <1>1 DEF Readable
<1>6. Choice(it) \subseteq it.left \cap it.prefix
  BY DEF Choice, NotOverridden
<1>7. \A k \in Choice(it) : k \in Keys /\ value(k) \in Values
  <2>1. it.section \in Sections /\ it.from \in Sections
    BY <1>3 DEF Iterator
  <2>2. cache[it.section] \in Settings /\ Template[it.from] \in Settings
    BY <1>2, <2>1, Assumptions
  <2> QED
    BY <1>4, <1>6, <2>2 DEF KeysOf, Settings
<1> HIDE DEF turns, it, value, strayed
<1>8. /\ iter' \in Iterator /\ iter'.disturbed = strayed
      /\ iter'.section = it.section /\ iter'.from = it.from
      /\ iter'.stage = "done" \/ (iter'.stage = it.stage
                                  /\ iter'.left \subseteq it.left)
  <2>1. ASSUME NEW k \in Choice(it),
               iter' = [it EXCEPT !.seen = @ \cup {<<k, value(k)>>},
                                  !.left = @ \ {k}, !.disturbed = strayed]
        PROVE  /\ iter' \in Iterator /\ iter'.disturbed = strayed
               /\ iter'.section = it.section /\ iter'.from = it.from
               /\ iter'.stage = it.stage /\ iter'.left \subseteq it.left
    <3>1. <<k, value(k)>> \in Keys \X Values
      BY <1>7
    <3>2. it.seen \cup {<<k, value(k)>>} \in SUBSET (Keys \X Values)
      BY <1>3, <3>1 DEF Iterator
    <3> QED
      BY <1>2, <1>3, <2>1, <3>2 DEF Iterator
  <2>2. ASSUME iter' = [it EXCEPT !.stage = "done", !.left = {},
                                  !.disturbed = strayed]
        PROVE  /\ iter' \in Iterator /\ iter'.disturbed = strayed
               /\ iter'.section = it.section /\ iter'.from = it.from
               /\ iter'.stage = "done"
    BY <1>2, <1>3, <2>2 DEF Iterator
  <2> QED
    BY <1>1, <2>1, <2>2
<1>9. LeftInv'
  BY <1>1, <1>4, <1>8 DEF LeftInv, KeysOf
<1>10. ReadingTypeOK' /\ EmptyInv'
  <2>1. loaded' \subseteq Sections
    BY <1>1, <1>2 DEF ReadingTypeOK
  <2> QED
    BY <1>1, <1>8, <2>1 DEF ReadingTypeOK, EmptyInv, Nothing
<1>11. ASSUME ~strayed
       PROVE  IterInv'
  <2>0. PICK s \in Sections : s = iter.section
    BY <1>2 DEF Iterator
  <2>1. selected = s /\ ~iter.disturbed /\ strayed = FALSE
    BY <1>2, <1>11, <2>0 DEF strayed, Iterator
  <2>2. Defaults(s)' = Defaults(s)
    BY <1>5 DEF Defaults, Nothing
  <2>3. CASE it.stage = "service"
    <3>1. it.from = s
      BY <1>1, <1>3, <2>0, <2>1, <2>3 DEF IterInv
    <3>2. it.left \subseteq KeysOf(Defaults(s))
      BY <1>1, <1>3, <2>0, <2>1, <2>3 DEF IterInv
    <3>3. it.seen = Pairs(cache[s], OwnKeys(s))
                      \cup Pairs(Defaults(s), DefaultKeys(s) \ it.left)
      <4>1. CASE ~turns
        BY <1>1, <1>3, <2>0, <2>1, <2>3, <4>1 DEF IterInv
      <4>2. CASE turns
        <5>1. DefaultKeys(s) \ it.left = {}
          BY <1>3, <2>1, <4>2 DEF DefaultKeys
        <5>2. \A f : Pairs(f, {}) = {}
          BY DEF Pairs
        <5>3. CASE iter.stage = "unset"
          BY <1>1, <1>3, <2>0, <2>1, <5>1, <5>2, <5>3 DEF IterInv
        <5>4. CASE iter.stage = "account" /\ iter.left \cap iter.prefix = {}
          <6>1. OwnKeys(s) \ iter.left = OwnKeys(s)
            BY <5>4 DEF OwnKeys
          <6> QED
            BY <1>1, <1>3, <2>0, <2>1, <5>1, <5>2, <5>4, <6>1 DEF IterInv
        <5> QED
          BY <4>2, <5>3, <5>4 DEF turns
      <4> QED
        BY <4>1, <4>2
    <3>4. \A k : value(k) = Template[s][k]
      BY <2>3, <3>1 DEF value
    <3>5. \/ \E k \in Choice(it) :
               iter' = [it EXCEPT !.seen = @ \cup {<<k, Template[s][k]>>},
                                  !.left = @ \ {k}, !.disturbed = FALSE]
          \/ /\ Choice(it) = {}
             /\ iter' = [it EXCEPT !.stage = "done", !.left = {},
                                   !.disturbed = FALSE]
      BY <1>1, <2>1, <3>4
    <3>6. /\ UNCHANGED cache /\ it \in Iterator /\ ReadingTypeOK
          /\ it.section = s /\ it.prefix = iter.prefix
      BY <1>1, <1>3, <2>0
    <3> QED
      BY <2>1, <2>2, <2>3, <3>1, <3>2, <3>3, <3>5, <3>6, DefaultsStep
  <2>4. CASE it.stage = "account"
    <3>1. ~turns /\ it = iter /\ Choice(it) # {}
      BY <1>1, <1>3, <2>4 DEF turns, Choice
    <3>2. PICK k \in Choice(iter) :
            iter' = [iter EXCEPT !.seen = @ \cup {<<k, value(k)>>},
                                 !.left = @ \ {k}, !.disturbed = FALSE]
      BY <1>1, <2>1, <3>1
    <3>3. value(k) = cache[s][k]
      BY <2>0, <2>4, <3>1 DEF value
    <3>4. /\ iter'.stage = "account" /\ iter'.section = s
          /\ iter'.prefix = iter.prefix /\ iter'.left = iter.left \ {k}
          /\ iter'.seen = iter.seen \cup {<<k, cache[s][k]>>}
      BY <1>2, <2>0, <2>4, <3>1, <3>2, <3>3 DEF Iterator
    <3>5. /\ iter.left \subseteq KeysOf(cache[s])
          /\ iter.seen = Pairs(cache[s], OwnKeys(s) \ iter.left)
      BY <1>1, <2>0, <2>1, <2>4, <3>1 DEF IterInv
    <3>6. k \in OwnKeys(s) /\ k \in iter.left
      BY <1>6, <3>1, <3>2, <3>5 DEF OwnKeys
    <3>7. Pairs(cache[s], OwnKeys(s) \ iter'.left) = iter'.seen
      <4>1. OwnKeys(s) \ iter'.left = (OwnKeys(s) \ iter.left) \cup {k}
        BY <3>4, <3>6
      <4> QED
        BY <3>4, <3>5, <4>1 DEF Pairs
    <3>8. OwnKeys(iter.section)' = OwnKeys(s) /\ cache' = cache
          /\ KeysOf(cache[iter.section])' = KeysOf(cache[s])
      BY <1>1, <3>4 DEF OwnKeys, KeysOf
    <3> QED
      BY <3>4, <3>5, <3>7, <3>8 DEF IterInv
  <2> QED
    BY <1>4, <2>3, <2>4
<1>12. ASSUME strayed
       PROVE  IterInv'
  BY <1>2, <1>8, <1>12 DEF IterInv
<1> QED
  BY <1>1, <1>9, <1>10, <1>11, <1>12 DEF ReadingInv
-----------------------------------------------------------------------------
(* Dictionaries.                                                           *)

LEMMA DictionaryIs ==
  \A f : f \in Dictionary <=> \E ks \in SUBSET Keys : f \in [ks -> Values]
BY DEF Dictionary

LEMMA DictionaryTypes ==
  /\ Empty \in Dictionary
  /\ \A k \in Keys, v \in Values : Entry(k, v) \in Dictionary
  /\ \A f, g \in Dictionary : Merge(f, g) \in Dictionary
<1>1. Empty \in [{} -> Values] /\ {} \in SUBSET Keys
  BY DEF Empty
<1>2. ASSUME NEW k \in Keys, NEW v \in Values
      PROVE  Entry(k, v) \in [{k} -> Values] /\ {k} \in SUBSET Keys
  BY DEF Entry
<1>3. ASSUME NEW f \in Dictionary, NEW g \in Dictionary
      PROVE  Merge(f, g) \in Dictionary
  <2>1. PICK fs \in SUBSET Keys : f \in [fs -> Values]
    BY DictionaryIs
  <2>2. PICK gs \in SUBSET Keys : g \in [gs -> Values]
    BY DictionaryIs
  <2>3. Merge(f, g) \in [fs \cup gs -> Values]
    BY <2>1, <2>2 DEF Merge
  <2> QED
    BY <2>3, DictionaryIs
<1> QED
  BY <1>1, <1>2, <1>3, DictionaryIs

LEMMA GivenType ==
  ASSUME NEW prefix \in SUBSET Keys, NEW values,
         \A k \in prefix : values[k] \in Values \cup {NoValue}
  PROVE  Given(values, prefix) \in Dictionary
<1> DEFINE ks == {k \in prefix : values[k] # NoValue}
<1>1. Given(values, prefix) \in [ks -> Values]
  BY DEF Given
<1>2. ks \in SUBSET Keys
  OBVIOUS
<1> QED
  BY <1>1, <1>2, DictionaryIs

\* What an iteration in one go returns is what lookups give: the defaults that
\* it leaves out are those a lookup does not reach.
LEMMA IterationReadsLookups ==
  ASSUME NEW tables, NEW s, NEW prefix \in SUBSET Keys
  PROVE  ReadAuthSettings(tables, s, prefix)
         = Given([k \in prefix |-> Lookup(tables, s, k)], prefix)
<1> DEFINE found == [k \in prefix |-> Lookup(tables, s, k)]
           own   == KeysOf(tables[s]) \cap prefix
           rest  == NotOverridden(KeysOf(Defaults(s)) \cap prefix, tables[s])
           val(k) == IF k \in rest THEN Defaults(s)[k] ELSE tables[s][k]
<1>1. own \cup rest = {k \in prefix : found[k] # NoValue}
  BY DEF Lookup, KeysOf, NotOverridden
<1>2. \A k \in own \cup rest : val(k) = found[k]
  BY DEF Lookup, KeysOf, NotOverridden
<1>3. ReadAuthSettings(tables, s, prefix) = [k \in own \cup rest |-> val(k)]
  BY DEF ReadAuthSettings
<1> HIDE DEF found, own, rest, val
<1>4. Given(found, prefix) = [k \in own \cup rest |-> val(k)]
  BY <1>1, <1>2 DEF Given
<1> QED
  BY <1>3, <1>4 DEF found

\* A parameter is read from the service first, and then from the account,
\* whether they are looked up one by one or all in a go.
LEMMA ParametersAreLookups ==
  ASSUME NEW tables, NEW s, NEW prefix \in SUBSET Keys
  PROVE  AuthParameters(tables, s, prefix)
         = Given([k \in prefix |-> WithFallback(tables, s, k)], prefix)
<1> DEFINE own   == [k \in prefix |-> Lookup(tables, s, k)]
           other == [k \in prefix |-> Lookup(tables, Global, k)]
           both  == [k \in prefix |-> WithFallback(tables, s, k)]
<1>1. \A k \in prefix : both[k] = IF own[k] # NoValue THEN own[k] ELSE other[k]
  BY DEF WithFallback
<1> HIDE DEF own, other, both
<1>2. Merge(Given(own, prefix), Given(other, prefix)) = Given(both, prefix)
  BY <1>1 DEF Merge, Given
<1>3. AuthParameters(tables, s, prefix) = Merge(Given(own, prefix),
                                               Given(other, prefix))
  BY IterationReadsLookups DEF own, other, AuthParameters
<1> QED
  BY <1>2, <1>3 DEF both

\* The login parameters are those of the client and the others of the account.
LEMMA LoginIsMerged ==
  ASSUME NEW f, NEW g
  PROVE  {<<k, f[k]>> : k \in DOMAIN f}
           \cup {<<k, g[k]>> : k \in DOMAIN g \ DOMAIN f}
         = {<<k, Merge(f, g)[k]>> : k \in DOMAIN f \cup DOMAIN g}
BY DEF Merge
-----------------------------------------------------------------------------
(* An AgAuthData.                                                          *)

AuthTypes ==
  /\ auth \in [method : Values \cup {NoValue}, parameters : Dictionary,
               compat : Dictionary, login : SUBSET (Keys \X Values)]
  /\ asked \in [parameters : Dictionary, extra : Dictionary]

AuthInv == ReadingInv /\ AuthTypes /\ ParametersMatchLookups

LEMMA NoAuthData ==
  ASSUME auth' = NoAuth, asked' = NotAsked
  PROVE  AuthTypes' /\ ParametersMatchLookups'
BY DictionaryTypes DEF NoAuth, NotAsked, AuthTypes, ParametersMatchLookups

LEMMA ReadingUnchanged ==
  ASSUME ReadingInv, UNCHANGED vars
  PROVE  ReadingInv'
<1>1. /\ UNCHANGED <<rows, entries, cache, selected, installed, loaded, iter>>
      /\ UNCHANGED locks /\ ReadingTypeOK /\ EmptyInv /\ LeftInv /\ IterInv
  BY DEF vars, accountVars, fileVars, ReadingInv
<1>2. Defaults(iter.section)' = Defaults(iter.section)
  BY <1>1 DEF Defaults, Readable, Nothing
<1>3. LeftInv' /\ IterInv'
  BY <1>1, <1>2, IterationStays
<1> QED
  BY <1>1, <1>3 DEF ReadingInv, ReadingTypeOK, EmptyInv, Nothing

\* The application's parameters are kept with the data that was made.
LEMMA LoginKeeps ==
  ASSUME AuthInv, NEW extra \in Dictionary, GetLoginParameters(extra)
  PROVE  AuthInv'
<1> DEFINE login == {<<k, extra[k]>> : k \in DOMAIN extra}
                      \cup {<<k, auth.parameters[k]>> :
                              k \in DOMAIN auth.parameters \ DOMAIN extra}
<1>1. /\ AuthTypes /\ auth.parameters = asked.parameters
      /\ auth.parameters \in Dictionary
  BY DEF AuthInv, AuthTypes, ParametersMatchLookups
<1>2. login = {<<k, Merge(extra, auth.parameters)[k]>> :
                 k \in DOMAIN extra \cup DOMAIN auth.parameters}
  BY LoginIsMerged
<1>3. login \in SUBSET (Keys \X Values)
  <2>1. PICK es \in SUBSET Keys : extra \in [es -> Values]
    BY DictionaryIs
  <2>2. PICK ps \in SUBSET Keys : auth.parameters \in [ps -> Values]
    BY <1>1, DictionaryIs
  <2> QED
    BY <2>1, <2>2
<1>4. /\ auth' = [auth EXCEPT !.login = login]
      /\ asked' = [asked EXCEPT !.extra = extra] /\ UNCHANGED vars
  BY DEF GetLoginParameters
<1> HIDE DEF login
<1>5. /\ AuthTypes' /\ auth'.login = login
      /\ auth'.parameters = auth.parameters
      /\ asked'.parameters = asked.parameters /\ asked'.extra = extra
  BY <1>1, <1>3, <1>4 DEF AuthTypes
<1>6. ParametersMatchLookups'
  BY <1>1, <1>2, <1>5 DEF ParametersMatchLookups
<1>7. ReadingInv'
  BY <1>4, ReadingUnchanged DEF AuthInv
<1> QED
  BY <1>5, <1>6, <1>7 DEF AuthInv

LEMMA InsertKeeps ==
  ASSUME AuthInv, NEW extra \in Dictionary, InsertParameters(extra)
  PROVE  AuthInv'
<1> DEFINE compat == Merge(extra, IF auth.compat = Empty THEN auth.parameters
                                  ELSE auth.compat)
<1>1. AuthTypes /\ ParametersMatchLookups
  BY DEF AuthInv
<1>2. compat \in Dictionary
  BY <1>1, DictionaryTypes DEF AuthTypes
<1>3. auth' = [auth EXCEPT !.compat = compat] /\ UNCHANGED <<vars, asked>>
  BY DEF InsertParameters
<1> HIDE DEF compat
<1>4. /\ AuthTypes' /\ auth'.parameters = auth.parameters
      /\ auth'.login = auth.login
  BY <1>1, <1>2, <1>3 DEF AuthTypes
<1>5. ParametersMatchLookups'
  BY <1>1, <1>3, <1>4 DEF ParametersMatchLookups
<1> QED
  BY <1>3, <1>4, <1>5, ReadingUnchanged DEF AuthInv

LEMMA NewAuthDataKeeps ==
  ASSUME AuthInv, NEW s \in Sections, NewAuthData(s)
  PROVE  AuthInv'
<1> DEFINE method == WithFallback(cache', s, Method)
           prefix == IF method = NoValue THEN {} ELSE Parameters[method]
           params == AuthParameters(cache', s, prefix)
           single == Given([k \in prefix |-> WithFallback(cache', s, k)],
                           prefix)
<1>1. /\ ReadingTypeOK /\ EmptyInv /\ LeftInv /\ IterInv
      /\ selected' = s /\ UNCHANGED <<rows, installed>>
      /\ loaded' = loaded \cup ({s, Global} \cap installed)
      /\ auth' = [NoAuth EXCEPT !.method = method, !.parameters = params]
      /\ asked' = [NotAsked EXCEPT !.parameters = single]
  BY DEF AuthInv, ReadingInv, NewAuthData
<1>2. Global \in Sections /\ {s, Global} \in SUBSET Sections
  BY Assumptions
<1>3. /\ entries' = entries \cup {s, Global} /\ entries' \subseteq Sections
      /\ cache' \in [Sections -> Settings] /\ locks' \in Nat
      /\ \A t \in Sections :
           t \notin {s, Global} \/ t \in entries => cache'[t] = cache[t]
  BY <1>1, <1>2, ReadSectionsEffect DEF NewAuthData
<1>4. iter' \in Iterator /\ LeftInv' /\ IterInv'
  <2>1. PICK t \in Sections : t = iter.section
    BY <1>1 DEF ReadingTypeOK, Iterator
  <2>2. Readable' = Readable
    BY <1>1 DEF Readable
  <2>3. CASE t \in {s, Global} \ entries
    <3>1. Disturb(t, cache')
      BY <2>1, <2>3 DEF NewAuthData
    <3> QED
      BY <1>1, <1>3, <2>1, <2>2, <3>1, IterationDisturbed
  <2>4. CASE t \notin {s, Global} \ entries
    <3>1. iter' = iter /\ iter \in Iterator
      BY <1>1, <2>1, <2>4 DEF NewAuthData, ReadingTypeOK
    <3>2. Defaults(iter.section)' = Defaults(iter.section)
      BY <2>2, <3>1 DEF Defaults, Nothing
    <3> QED
      BY <1>1, <1>3, <2>1, <2>4, <3>1, <3>2, IterationStays
  <2> QED
    BY <2>3, <2>4
<1>5. ReadingInv'
  <2>1. loaded' \subseteq Sections
    BY <1>1 DEF ReadingTypeOK
  <2> QED
    BY <1>1, <1>3, <1>4, <2>1 DEF ReadingInv, ReadingTypeOK, EmptyInv, Nothing
<1>6. \A k \in Keys : WithFallback(cache', s, k) \in Values \cup {NoValue}
  BY <1>2, <1>3, LookupTypes DEF WithFallback
<1>7. /\ method \in Values \cup {NoValue} /\ prefix \in SUBSET Keys
  BY <1>6, Assumptions
<1> HIDE DEF method, prefix
<1>8. single \in Dictionary
  BY <1>6, <1>7, GivenType
<1>9. params = single
  BY <1>7, ParametersAreLookups
<1> HIDE DEF params, single
<1>10. /\ auth' = [method |-> method, parameters |-> params, compat |-> Empty,
                   login |-> {}]
       /\ asked' = [parameters |-> single, extra |-> Empty]
  BY <1>1 DEF NoAuth, NotAsked
<1>11. AuthTypes' /\ ParametersMatchLookups'
  BY <1>7, <1>8, <1>9, <1>10, DictionaryTypes
  DEF AuthTypes, ParametersMatchLookups
<1> QED
  BY <1>5, <1>11 DEF AuthInv

LEMMA AuthInit ==
  ASSUME Init
  PROVE  AuthInv
<1>1. /\ ReadingInit /\ auth = NoAuth /\ asked = NotAsked
  BY DEF Init
<1>2. Nothing \in Settings /\ rows \in [Sections -> Settings]
  BY <1>1 DEF Nothing, Settings, ReadingInit
<1>3. cache \in [Sections -> Settings] /\ entries \subseteq Sections
  BY <1>1, <1>2, Assumptions DEF ReadingInit
<1>4. ReadingTypeOK
  BY <1>1, <1>2, <1>3, Assumptions, NoIteratorType
  DEF ReadingInit, ReadingTypeOK
<1>5. EmptyInv
  BY <1>1 DEF ReadingInit, EmptyInv
<1>6. LeftInv /\ IterInv
  BY <1>1, NoIteratorType DEF ReadingInit, LeftInv, IterInv
<1>7. AuthTypes /\ ParametersMatchLookups
  BY <1>1, DictionaryTypes
  DEF NoAuth, NotAsked, AuthTypes, ParametersMatchLookups
<1> QED
  BY <1>4, <1>5, <1>6, <1>7 DEF AuthInv, ReadingInv

LEMMA AuthNext ==
  ASSUME AuthInv, [Next]_allVars
  PROVE  AuthInv'
<1>1. CASE Reading /\ UNCHANGED authVars
  <2>1. ReadingInv
    BY DEF AuthInv
  <2>2. ReadingInv'
    <3>1. CASE \E s \in Sections : SelectService(s) \/ Install(s)
      BY <2>1, <3>1, SelectKeeps, InstallKeeps
    <3>2. CASE \E k \in Keys : GetVariant(k)
      BY <2>1, <3>2, GetVariantKeeps
    <3>3. CASE \E prefix \in Prefixes : BeginIteration(prefix)
      BY <2>1, <3>3, BeginKeeps
    <3>4. CASE IterationNext \/ EndIteration
      BY <2>1, <3>4, IterationNextKeeps, EndKeeps
    <3>5. CASE \E s \in Sections, k \in Keys, v \in Values \cup {NoValue} :
                 Change(s, k, v)
      BY <2>1, <3>5, ChangeKeeps
    <3> QED
      BY <1>1, <3>1, <3>2, <3>3, <3>4, <3>5 DEF Reading
  <2> QED
    BY <1>1, <2>2 DEF AuthInv, AuthTypes, ParametersMatchLookups, authVars
<1>2. CASE \E s \in Sections : NewAuthData(s)
  BY <1>2, NewAuthDataKeeps
<1>3. CASE \E k \in Keys, v \in Values :
             GetLoginParameters(Entry(k, v)) \/ InsertParameters(Entry(k, v))
  BY <1>3, DictionaryTypes, LoginKeeps, InsertKeeps
<1>4. CASE FreeAuthData
  BY <1>4, NoAuthData, ReadingUnchanged DEF FreeAuthData, AuthInv
<1>5. CASE UNCHANGED allVars
  <2>1. UNCHANGED vars /\ UNCHANGED <<auth, asked>>
    BY <1>5 DEF allVars, authVars
  <2> QED
    BY <2>1, ReadingUnchanged
    DEF AuthInv, AuthTypes, ParametersMatchLookups
<1> QED
  BY <1>1, <1>2, <1>3, <1>4, <1>5 DEF Next

LEMMA Invariance == Spec => []AuthInv
BY AuthInit, AuthNext, PTL DEF Spec

\* Every variable keeps its type; in particular an iterator and an AgAuthData
\* never hold a key without a value, whatever is stored, installed or removed
\* while they are used.
THEOREM TypeCorrect == Spec => []TypeOK
<1>1. AuthInv => TypeOK
  BY DEF AuthInv, ReadingInv, AuthTypes, TypeOK
<1> QED
  BY <1>1, Invariance, PTL

\* A loop over an iterator that nothing has disturbed returns each key with
\* the value that ag_account_get_variant() gives for it, once, and no other
\* key, for any settings, defaults and prefixes.
THEOREM IteratorsMatchLookups == Spec => []IterationMatchesLookups
<1>1. AuthInv => IterationMatchesLookups
  BY IterationIsRight DEF AuthInv, ReadingInv
<1> QED
  BY <1>1, Invariance, PTL

\* The parameters of an AgAuthData are what looking up each of them in the
\* service, and then in the account, gave when it was made, and those the
\* application passes take their place among the login parameters.
THEOREM ParametersAreThoseLookedUp == Spec => []ParametersMatchLookups
<1>1. AuthInv => ParametersMatchLookups
  BY DEF AuthInv
<1> QED
  BY <1>1, Invariance, PTL
=============================================================================
