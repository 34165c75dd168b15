---------------------------- MODULE DriverProofs ----------------------------
(***************************************************************************)
(* Theorems about the kernel modules: their life cycle, on any machine and *)
(* with any number of processes, and the thread, the readers and the exit  *)
(* of the wait-queue driver.  The two specifications share no state.       *)
(***************************************************************************)
EXTENDS DriverProps, WaitQueueProps, SequenceTheorems, FiniteSetTheorems, TLAPS

----------------------------------------------------------------------------
(* What the recipes have to keep for the life cycle to be safe.            *)

Calls == DOMAIN Releases
Tests == {"negative", "null", "errptr", "none", "used"}
Steps == [what : Resources, test : Tests, undo : Seq(Calls),
          next : {"abort", "go on"}]

Before(d, k) == {InitOf(d)[i].what : i \in 1..(k - 1)}
Whats(d)     == {InitOf(d)[i].what : i \in DOMAIN InitOf(d)}
Released(s)  == UNION {Releases[s[i]] : i \in DOMAIN s}
ExitAll(d)   == Recipes[d].remove \o Recipes[d].exit

\* What d may leave behind.
Allowed(d) == Unreleased(d) \cup (IF d \in troubled THEN Forgets(d) ELSE {})

(* A step of an init function that gives up undoes what was done before,   *)
(* but for what Forgets names, and keeps the driver if a probe fails; one  *)
(* that goes on takes no more than the kobject away.                       *)
StepFact(d, k) ==
  LET step == InitOf(d)[k]
  IN  /\ Noticed(step) /\ step.next = "abort" =>
           IF "platform" \in Before(d, k)
           THEN Before(d, k) \cap Outlives \subseteq {"platform"} \cup Forgets(d)
           ELSE (Before(d, k) \cap Outlives) \ Released(step.undo)
                  \subseteq Forgets(d)
      /\ Noticed(step) /\ step.next = "go on" =>
           Released(step.undo) \cap Before(d, k) \subseteq {"kobject"}
      /\ step.what \in Entries("attr") => Needs(d, "attr") \subseteq Before(d, k)
StepFacts(d) == \A k \in DOMAIN InitOf(d) : StepFact(d, k)

(* No init function makes the same thing twice.                            *)
Distinct(d) ==
  \A i, j \in DOMAIN InitOf(d) : InitOf(d)[i].what = InitOf(d)[j].what => i = j

(* The exit function releases what init has registered, the kobject with   *)
(* the entry in it first, and so does the exit after a failed probe.       *)
ExitFacts(d) ==
  /\ Recipes[d].remove \in Seq(Calls) /\ Recipes[d].exit \in Seq(Calls)
  /\ "bound" \notin Whats(d) => Recipes[d].remove = <<>>
  /\ (Whats(d) \cap Outlives) \ Released(ExitAll(d)) \subseteq Unreleased(d)
  /\ "bound" \in Whats(d) => "platform" \in Released(Recipes[d].exit)
  /\ \A i \in DOMAIN ExitAll(d) :
       ExitAll(d)[i] = "kobject_put" => i = 1 /\ "kobject" \in Whats(d)
  /\ Whats(d) \cap {"kobject", "attr"} # {} =>
       ExitAll(d) # <<>> /\ ExitAll(d)[1] = "kobject_put"
  /\ "bound" \notin Forgets(d) /\ Forgets(d) \cap Entries("attr") = {}

(* A handler of the file that needs an object may run before it exists; an *)
(* entry in /proc needs none, and no entry needs the thread.               *)
UseFacts(d) ==
  /\ Needs(d, "file") # {} => LateObject(d)
  /\ "procfile" \in Whats(d) => Needs(d, "attr") = {}
  /\ "thread" \notin Needs(d, "attr")

SafeRecipe(d) ==
  InitOf(d) \in Seq(Steps) /\ StepFacts(d) /\ Distinct(d) /\ ExitFacts(d) /\ UseFacts(d)
RecipeFacts == \A d \in Drivers : SafeRecipe(d)

----------------------------------------------------------------------------
(* The invariant.                                                          *)

Phases == {"out", "loading", "live", "undoing", "unloading", "dead"}
Inside == [drv : Drivers, way : Ways, freed : BOOLEAN]

LifeTypes ==
  /\ machine \subseteq Drivers
  /\ phase \in [Drivers -> Phases] /\ DOMAIN todo = Drivers
  /\ has \in [Drivers -> SUBSET Resources] /\ bad \in [Drivers -> SUBSET Resources]
  /\ left \in [Drivers -> SUBSET Resources]
  /\ user \in [Users -> {Idle} \cup Inside]
  /\ aborted \subseteq troubled

(* Where init is in its recipe, and what it has registered so far: all of  *)
(* it, if no call has failed.                                              *)
Loading(d) ==
  \E k \in 1..(Len(InitOf(d)) + 1) :
    /\ todo[d] = SubSeq(InitOf(d), k, Len(InitOf(d)))
    /\ has[d] \subseteq Before(d, k)
    /\ "bound" \in Before(d, k) => "bound" \in has[d]
    /\ d \notin troubled => has[d] = Before(d, k)

(* A driver that is bound to no device has what its failed probe forgot.   *)
Unbound(d) ==
  d \in troubled /\ has[d] \cap Outlives \subseteq {"platform"} \cup Forgets(d)
Live(d) ==
  /\ has[d] \subseteq Whats(d)
  /\ "bound" \in Whats(d) \ has[d] => Unbound(d)
  /\ d \notin troubled => has[d] = Whats(d)

(* What is left to do releases all that may not stay.                      *)
Settles(d) == (has[d] \cap Outlives) \ Released(todo[d]) \subseteq Allowed(d)

Undoing(d) ==
  /\ d \in aborted /\ todo[d] \in Seq(Calls) /\ has[d] \subseteq Whats(d)
  /\ IF "platform" \in has[d] THEN Unbound(d) ELSE Settles(d)

(* Unless something has failed, the kobject is put once and first.         *)
KobjectFirst(d) ==
  /\ has[d] \subseteq Whats(d)
  /\ \A i \in DOMAIN todo[d] :
       todo[d][i] = "kobject_put" => i = 1 /\ "kobject" \in has[d]
  /\ has[d] \cap {"kobject", "attr"} # {} =>
       todo[d] # <<>> /\ todo[d][1] = "kobject_put"

Unloading(d) ==
  /\ todo[d] \in Seq(Calls) /\ Settles(d)
  /\ d \notin troubled => KobjectFirst(d)

(* The handlers of an entry find what they need.                           *)
Supplied(d) ==
  d \notin troubled /\ has[d] \cap Entries("attr") # {} =>
    Needs(d, "attr") \subseteq has[d]

PhaseInv(d) ==
  /\ phase[d] = "out" => has[d] = {}
  /\ phase[d] = "loading" => Loading(d)
  /\ phase[d] = "live" => Live(d)
  /\ phase[d] = "undoing" => Undoing(d)
  /\ phase[d] = "unloading" => Unloading(d)
  /\ bad[d] # {} => d \in troubled
  /\ phase[d] # "dead" => Supplied(d)

(* Whoever is in a module holds it there: by the open file, or by the      *)
(* entry, which its removal waits for.                                     *)
UserInv(u) ==
  \A d \in Drivers :
    /\ In(u, d, "file") => phase[d] \notin {"out", "unloading"}
    /\ In(u, d, "attr") =>
         /\ phase[d] # "out"
         /\ phase[d] # "dead" => Entries("attr") \cap has[d] # {}

LifeInv ==
  /\ LifeTypes /\ (\A d \in Drivers : PhaseInv(d)) /\ (\A u \in Users : UserInv(u))
  /\ HealthyIsSafe /\ PinnedWhileUsed /\ NothingLeft

----------------------------------------------------------------------------
(* Sequences of calls and of steps.                                        *)

\* The first call of a sequence and the rest of it release what it releases.
LEMMA FirstCall ==
  ASSUME NEW s \in Seq(Calls), s # <<>>
  PROVE  /\ Head(s) = s[1] /\ Head(s) \in Calls /\ Tail(s) \in Seq(Calls)
         /\ 1 \in DOMAIN s
         /\ \A i \in DOMAIN Tail(s) :
              i \in Nat /\ i + 1 \in DOMAIN s /\ Tail(s)[i] = s[i + 1]
         /\ Released(s) \subseteq Releases[Head(s)] \cup Released(Tail(s))
<1>1. /\ Head(s) = s[1] /\ Head(s) \in Calls /\ Tail(s) \in Seq(Calls)
      /\ 1 \in DOMAIN s /\ DOMAIN s = 1..Len(s)
      /\ DOMAIN Tail(s) = 1..(Len(s) - 1) /\ Len(s) \in Nat
      /\ \A i \in 1..(Len(s) - 1) : Tail(s)[i] = s[i + 1]
  OBVIOUS
<1>2. \A i \in DOMAIN Tail(s) :
        i \in Nat /\ i + 1 \in DOMAIN s /\ Tail(s)[i] = s[i + 1]
  BY <1>1
<1>3. ASSUME NEW i \in DOMAIN s
      PROVE  Releases[s[i]] \subseteq Releases[Head(s)] \cup Released(Tail(s))
  <2>1. CASE i = 1
    BY <2>1, <1>1
  <2>2. CASE i # 1
    <3>1. i - 1 \in DOMAIN Tail(s) /\ Tail(s)[i - 1] = s[i]
      BY <2>2, <1>1
    <3>2. QED
      BY <3>1 DEF Released
  <2>3. QED
    BY <2>1, <2>2
<1>4. QED
  BY <1>1, <1>2, <1>3 DEF Released

\* A sequence of no calls releases nothing.
LEMMA NoCall == Released(<<>>) = {}
BY DEF Released

\* What is left of init after its k-th step.
LEMMA NextStep ==
  ASSUME NEW d \in Drivers, InitOf(d) \in Seq(Steps),
         NEW k \in 1..(Len(InitOf(d)) + 1),
         NEW rest, rest = SubSeq(InitOf(d), k, Len(InitOf(d))), rest # <<>>
  PROVE  /\ k \in DOMAIN InitOf(d) /\ Head(rest) = InitOf(d)[k]
         /\ Head(rest) \in Steps /\ InitOf(d)[k] \in Steps
         /\ k + 1 \in 1..(Len(InitOf(d)) + 1)
         /\ Tail(rest) = SubSeq(InitOf(d), k + 1, Len(InitOf(d)))
         /\ Before(d, k + 1) = Before(d, k) \cup {InitOf(d)[k].what}
<1> DEFINE s == InitOf(d)
<1>1. s \in Seq(Steps) /\ Len(s) \in Nat /\ DOMAIN s = 1..Len(s) /\ k \in Nat
  OBVIOUS
<1>2. k \in 1..Len(s)
  BY <1>1
<1>3. Len(s) \in k..Len(s)
  BY <1>1, <1>2
<1>4. Head(rest) = s[k] /\ s[k] \in Steps
  BY <1>1, <1>2, <1>3, HeadTailOfSubSeq
<1>5. Tail(rest) = SubSeq(s, k + 1, Len(s))
  BY <1>1, <1>2, <1>3, HeadTailOfSubSeq
<1>6. Before(d, k + 1) = Before(d, k) \cup {s[k].what}
  <2>1. 1..((k + 1) - 1) = 1..(k - 1) \cup {k}
    BY <1>1, <1>2
  <2>2. QED
    BY <2>1 DEF Before
<1>7. QED
  BY <1>1, <1>2, <1>4, <1>5, <1>6

----------------------------------------------------------------------------
(* The recipes of the repository keep these facts: each is gone through,   *)
(* step by step and call by call.                                          *)

\* The parts of the recipe of a character driver.
LEMMA RecipeParts ==
  ASSUME NEW d, NEW init \in Seq(Steps), NEW exit \in Seq(Calls),
         Recipes[d] = Recipe(init, exit)
  PROVE  /\ InitOf(d) = init /\ ExitAll(d) = exit
         /\ Recipes[d].remove = <<>> /\ Recipes[d].exit = exit
         /\ ExitCalls(d) = {exit[i] : i \in DOMAIN exit}
BY ConcatEmptySeq DEF Recipe, InitOf, ExitAll, ExitCalls

\* What the first steps of init register.
LEMMA BeforeIs ==
  ASSUME NEW d
  PROVE  /\ Before(d, 1) = {}
         /\ Before(d, 2) = {InitOf(d)[1].what}
         /\ Before(d, 3) = {InitOf(d)[1].what, InitOf(d)[2].what}
         /\ Before(d, 4) = {InitOf(d)[1].what, InitOf(d)[2].what, InitOf(d)[3].what}
         /\ Before(d, 5) = {InitOf(d)[1].what, InitOf(d)[2].what, InitOf(d)[3].what,
                            InitOf(d)[4].what}
         /\ Before(d, 6) = {InitOf(d)[1].what, InitOf(d)[2].what, InitOf(d)[3].what,
                            InitOf(d)[4].what, InitOf(d)[5].what}
         /\ Before(d, 7) = {InitOf(d)[1].what, InitOf(d)[2].what, InitOf(d)[3].what,
                            InitOf(d)[4].what, InitOf(d)[5].what, InitOf(d)[6].what}
         /\ Before(d, 8) = {InitOf(d)[1].what, InitOf(d)[2].what, InitOf(d)[3].what,
                            InitOf(d)[4].what, InitOf(d)[5].what, InitOf(d)[6].what,
                            InitOf(d)[7].what}
<1>1. /\ 1..0 = {} /\ 1..1 = {1} /\ 1..2 = {1, 2} /\ 1..3 = {1, 2, 3}
      /\ 1..4 = {1, 2, 3, 4} /\ 1..5 = {1, 2, 3, 4, 5} /\ 1..6 = {1, 2, 3, 4, 5, 6}
      /\ 1..7 = {1, 2, 3, 4, 5, 6, 7}
  OBVIOUS
<1>2. Before(d, 1) = {}
  BY <1>1 DEF Before
<1>3. Before(d, 2) = {InitOf(d)[1].what}
  BY <1>1 DEF Before
<1>4. Before(d, 3) = {InitOf(d)[1].what, InitOf(d)[2].what}
  BY <1>1 DEF Before
<1>5. Before(d, 4) = {InitOf(d)[1].what, InitOf(d)[2].what, InitOf(d)[3].what}
  BY <1>1 DEF Before
<1>6. Before(d, 5) = {InitOf(d)[1].what, InitOf(d)[2].what, InitOf(d)[3].what,
                      InitOf(d)[4].what}
  BY <1>1 DEF Before
<1>7. Before(d, 6) = {InitOf(d)[1].what, InitOf(d)[2].what, InitOf(d)[3].what,
                      InitOf(d)[4].what, InitOf(d)[5].what}
  BY <1>1 DEF Before
<1>8. Before(d, 7) = {InitOf(d)[1].what, InitOf(d)[2].what, InitOf(d)[3].what,
                      InitOf(d)[4].what, InitOf(d)[5].what, InitOf(d)[6].what}
  BY <1>1 DEF Before
<1>9. Before(d, 8) = {InitOf(d)[1].what, InitOf(d)[2].what, InitOf(d)[3].what,
                      InitOf(d)[4].what, InitOf(d)[5].what, InitOf(d)[6].what,
                      InitOf(d)[7].what}
  BY <1>1 DEF Before
<1>10. QED
  BY <1>2, <1>3, <1>4, <1>5, <1>6, <1>7, <1>8, <1>9

\* Two sequences of calls release what each of them does.
LEMMA ReleasedBoth ==
  ASSUME NEW s \in Seq(Calls), NEW t \in Seq(Calls)
  PROVE  s \o t \in Seq(Calls) /\ Released(s \o t) = Released(s) \cup Released(t)
<1>1. /\ s \o t \in Seq(Calls) /\ Len(s) \in Nat /\ Len(t) \in Nat
      /\ DOMAIN s = 1..Len(s) /\ DOMAIN t = 1..Len(t)
      /\ DOMAIN (s \o t) = 1..(Len(s) + Len(t))
      /\ \A i \in 1..Len(s) : (s \o t)[i] = s[i]
      /\ \A i \in 1..Len(t) : (s \o t)[Len(s) + i] = t[i]
  OBVIOUS
<1>2. ASSUME NEW i \in DOMAIN (s \o t)
      PROVE  Releases[(s \o t)[i]] \subseteq Released(s) \cup Released(t)
  <2>1. CASE i \in 1..Len(s)
    BY <2>1, <1>1 DEF Released
  <2>2. CASE i \notin 1..Len(s)
    <3>1. i - Len(s) \in DOMAIN t /\ (s \o t)[i] = t[i - Len(s)]
      BY <2>2, <1>1
    <3>2. QED
      BY <3>1 DEF Released
  <2>3. QED
    BY <2>1, <2>2
<1>3. \A i \in DOMAIN s : Releases[s[i]] \subseteq Released(s \o t)
  BY <1>1 DEF Released
<1>4. ASSUME NEW i \in DOMAIN t
      PROVE  Releases[t[i]] \subseteq Released(s \o t)
  <2>1. Len(s) + i \in DOMAIN (s \o t) /\ (s \o t)[Len(s) + i] = t[i]
    BY <1>1
  <2>2. QED
    BY <2>1 DEF Released
<1>5. Released(s \o t) \subseteq Released(s) \cup Released(t)
  BY <1>2 DEF Released
<1>6. Released(s) \subseteq Released(s \o t) /\ Released(t) \subseteq Released(s \o t)
  BY <1>3, <1>4 DEF Released
<1>7. QED
  BY <1>1, <1>5, <1>6

\* The undo sequences of the character drivers.
LEMMA Undos ==
  /\ UndoNumber \in Seq(Calls) /\ Released(UndoNumber) = {"number"}
  /\ UndoClass \in Seq(Calls) /\ Released(UndoClass) = {"number", "class"}
  /\ UndoDevice \in Seq(Calls) /\ Released(UndoDevice) = {"number", "class", "device"}
<1>1. /\ <<"unregister_1">> \in Seq(Calls) /\ <<"class_destroy">> \in Seq(Calls)
      /\ <<"device_destroy">> \in Seq(Calls)
  BY DEF Calls, Releases
<1>2. /\ Released(<<"unregister_1">>) = {"number"} /\ Released(<<"class_destroy">>) = {"class"}
      /\ Released(<<"device_destroy">>) = {"device"}
  BY DEF Released, Releases
<1>3. UndoNumber \in Seq(Calls) /\ Released(UndoNumber) = {"number"}
  BY <1>1, <1>2 DEF UndoNumber
<1>4. UndoClass \in Seq(Calls) /\ Released(UndoClass) = {"number", "class"}
  <2>1. UndoClass \in Seq(Calls)
        /\ Released(UndoClass) = Released(<<"class_destroy">>) \cup Released(UndoNumber)
    BY <1>1, <1>3, ReleasedBoth DEF UndoClass
  <2>2. QED
    BY <2>1, <1>2, <1>3
<1>5. UndoDevice \in Seq(Calls) /\ Released(UndoDevice) = {"number", "class", "device"}
  <2>1. UndoDevice \in Seq(Calls)
        /\ Released(UndoDevice) = Released(<<"device_destroy">>) \cup Released(UndoClass)
    BY <1>1, <1>4, ReleasedBoth DEF UndoDevice
  <2>2. QED
    BY <2>1, <1>2, <1>4
<1>6. QED
  BY <1>3, <1>4, <1>5

\* Every recipe is made of steps.
LEMMA StepIn ==
  ASSUME NEW what \in Resources, NEW test \in Tests, NEW undo \in Seq(Calls)
  PROVE  Step(what, test, undo) \in Steps /\ Tolerate(what, test, undo) \in Steps
BY DEF Step, Tolerate, Steps

\* The resources and the tests that the recipes name.
LEMMA Names ==
  /\ {"number", "cdev", "class", "device", "memory", "procdir", "procfile", "kobject",
      "attr", "thread", "queue", "major", "platform", "iomem", "bound", "mapping",
      "pin", "node", "base"} = Resources
  /\ {"negative", "null", "errptr", "none", "used"} = Tests
  /\ <<>> \in Seq(Calls)
BY DEF Resources, ErrorOf, Tests

\* The four steps for a device file, one by one.
LEMMA DeviceFileSteps ==
  /\ DeviceFileInit \in Seq(Steps) /\ Len(DeviceFileInit) = 4
  /\ DeviceFileInit[1] = Step("number", "negative", <<>>)
  /\ DeviceFileInit[2] = Step("cdev", "negative", UndoNumber)
  /\ DeviceFileInit[3] = Step("class", "null", UndoNumber)
  /\ DeviceFileInit[4] = Step("device", "null", UndoClass)
<1>1. /\ Step("number", "negative", <<>>) \in Steps
      /\ Step("cdev", "negative", UndoNumber) \in Steps
      /\ Step("class", "null", UndoNumber) \in Steps
      /\ Step("device", "null", UndoClass) \in Steps
  BY StepIn, Names, Undos
<1>2. QED
  BY <1>1 DEF DeviceFileInit

\* The elements of a concatenation.
LEMMA JoinedLeft ==
  ASSUME NEW S, NEW s \in Seq(S), NEW t \in Seq(S), NEW i \in 1..Len(s)
  PROVE  (s \o t)[i] = s[i]
OBVIOUS

\* The elements of a concatenation that the second part gives.
LEMMA JoinedRight ==
  ASSUME NEW S, NEW s \in Seq(S), NEW t \in Seq(S), NEW i \in 1..Len(t)
  PROVE  (s \o t)[Len(s) + i] = t[i]
OBVIOUS

\* Every element of a concatenation is an element of one of its parts.
LEMMA Joined ==
  ASSUME NEW S, NEW s \in Seq(S), NEW t \in Seq(S), NEW i \in DOMAIN (s \o t)
  PROVE  \/ i \in DOMAIN s /\ (s \o t)[i] = s[i]
         \/ i - Len(s) \in DOMAIN t /\ (s \o t)[i] = t[i - Len(s)]
OBVIOUS

\* An init function that goes on after the four steps for a device file.
LEMMA DeviceFileThen ==
  ASSUME NEW rest \in Seq(Steps)
  PROVE  /\ DeviceFileInit \o rest \in Seq(Steps)
         /\ Len(rest) = 1 => DOMAIN (DeviceFileInit \o rest) = {1, 2, 3, 4, 5}
         /\ Len(rest) = 2 => DOMAIN (DeviceFileInit \o rest) = {1, 2, 3, 4, 5, 6}
         /\ \A i \in {1, 2, 3, 4} : (DeviceFileInit \o rest)[i] = DeviceFileInit[i]
         /\ 1 \in 1..Len(rest) => (DeviceFileInit \o rest)[5] = rest[1]
         /\ 2 \in 1..Len(rest) => (DeviceFileInit \o rest)[6] = rest[2]
<1>1. /\ DeviceFileInit \in Seq(Steps) /\ \A i \in {1, 2, 3, 4} : i \in 1..Len(DeviceFileInit)
  BY DeviceFileSteps
<1>2. /\ DeviceFileInit \o rest \in Seq(Steps)
      /\ Len(DeviceFileInit \o rest) = Len(DeviceFileInit) + Len(rest)
  BY <1>1, ConcatProperties
<1>3. \A i \in {1, 2, 3, 4} : (DeviceFileInit \o rest)[i] = DeviceFileInit[i]
  BY <1>1, JoinedLeft
<1>4. /\ 1 \in 1..Len(rest) => (DeviceFileInit \o rest)[Len(DeviceFileInit) + 1] = rest[1]
      /\ 2 \in 1..Len(rest) => (DeviceFileInit \o rest)[Len(DeviceFileInit) + 2] = rest[2]
  BY <1>1, JoinedRight
<1>5. Len(DeviceFileInit) = 4 /\ Len(DeviceFileInit) + 1 = 5 /\ Len(DeviceFileInit) + 2 = 6
  BY DeviceFileSteps
<1>6. DOMAIN (DeviceFileInit \o rest) = 1..(4 + Len(rest))
  BY <1>2, <1>5
<1>7. 1..(4 + 1) = {1, 2, 3, 4, 5} /\ 1..(4 + 2) = {1, 2, 3, 4, 5, 6}
  OBVIOUS
<1>8. QED
  BY <1>2, <1>3, <1>4, <1>5, <1>6, <1>7

\* The facts about those four steps.
LEMMA DeviceFilePrefix ==
  ASSUME NEW d, Forgets(d) = {"cdev"},
         InitOf(d)[1] = DeviceFileInit[1], InitOf(d)[2] = DeviceFileInit[2],
         InitOf(d)[3] = DeviceFileInit[3], InitOf(d)[4] = DeviceFileInit[4]
  PROVE  /\ \A k \in {1, 2, 3, 4} : StepFact(d, k)
         /\ InitOf(d)[1].what = "number" /\ InitOf(d)[2].what = "cdev"
         /\ InitOf(d)[3].what = "class" /\ InitOf(d)[4].what = "device"
         /\ Before(d, 5) = {"number", "cdev", "class", "device"}
         /\ Before(d, 6) = {"number", "cdev", "class", "device", InitOf(d)[5].what}
<1>1. /\ InitOf(d)[1] = Step("number", "negative", <<>>)
      /\ InitOf(d)[2] = Step("cdev", "negative", UndoNumber)
      /\ InitOf(d)[3] = Step("class", "null", UndoNumber)
      /\ InitOf(d)[4] = Step("device", "null", UndoClass)
  BY DeviceFileSteps
<1>2. /\ InitOf(d)[1].what = "number" /\ InitOf(d)[2].what = "cdev"
      /\ InitOf(d)[3].what = "class" /\ InitOf(d)[4].what = "device"
  BY <1>1 DEF Step
<1>3. /\ Before(d, 1) = {} /\ Before(d, 2) = {"number"}
      /\ Before(d, 3) = {"number", "cdev"} /\ Before(d, 4) = {"number", "cdev", "class"}
  BY <1>2, BeforeIs
<1>4. /\ Before(d, 5) = {"number", "cdev", "class", "device"}
      /\ Before(d, 6) = {"number", "cdev", "class", "device", InitOf(d)[5].what}
  BY <1>2, BeforeIs
<1>5. StepFact(d, 1)
  BY <1>1, <1>3 DEF StepFact, Step, Entries
<1>6. StepFact(d, 2)
  BY <1>1, <1>3, Undos DEF StepFact, Step, Entries
<1>7. StepFact(d, 3)
  BY <1>1 DEF StepFact, Step, Entries, Noticed, ErrorOf
<1>8. StepFact(d, 4)
  BY <1>1 DEF StepFact, Step, Entries, Noticed, ErrorOf
<1>9. QED
  BY <1>2, <1>4, <1>5, <1>6, <1>7, <1>8

\* A step of a character driver that undoes what it has to.
LEMMA UndoingStep ==
  ASSUME NEW d, NEW k, NEW what, NEW test, NEW undo,
         InitOf(d)[k] = Step(what, test, undo),
         "platform" \notin Before(d, k), Needs(d, "attr") = {},
         (Before(d, k) \cap Outlives) \ Released(undo) \subseteq Forgets(d)
  PROVE  StepFact(d, k)
BY DEF StepFact, Step

\* A step whose failure is not noticed, in a driver whose entries need nothing.
LEMMA BlindStep ==
  ASSUME NEW d, NEW k, NEW what, NEW test, NEW undo,
         InitOf(d)[k] = Step(what, test, undo), test # ErrorOf[what],
         Needs(d, "attr") = {}
  PROVE  StepFact(d, k)
BY DEF StepFact, Step, Noticed

\* The exit function of a character driver without a kobject.
LEMMA PlainExit ==
  ASSUME NEW d, NEW init \in Seq(Steps), NEW exit \in Seq(Calls),
         Recipes[d] = Recipe(init, exit),
         (Whats(d) \cap Outlives) \ Released(exit) \subseteq Unreleased(d),
         Whats(d) \cap {"bound", "kobject", "attr"} = {},
         \A i \in DOMAIN exit : exit[i] # "kobject_put",
         Forgets(d) = {"cdev"}
  PROVE  ExitFacts(d)
<1>1. /\ Recipes[d].remove = <<>> /\ Recipes[d].exit = exit /\ ExitAll(d) = exit
      /\ Recipes[d].remove \in Seq(Calls)
  BY RecipeParts, Names
<1>2. "bound" \notin Forgets(d) /\ Forgets(d) \cap Entries("attr") = {}
  BY DEF Entries
<1>3. QED
  BY <1>1, <1>2 DEF ExitFacts

\* The exit functions of the drivers with a device file, and what they release.
LEMMA Exits ==
  /\ DeviceFileExit \in Seq(Calls) /\ Released(DeviceFileExit) = {"device", "class", "cdev"}
  /\ \A i \in DOMAIN DeviceFileExit : DeviceFileExit[i] # "kobject_put"
  /\ DeviceFileExit[4] = "unregister_3" /\ 4 \in DOMAIN DeviceFileExit
  /\ FileOperationExit \in Seq(Calls)
  /\ Released(FileOperationExit) = {"memory", "device", "class", "cdev", "number"}
  /\ \A i \in DOMAIN FileOperationExit : FileOperationExit[i] # "kobject_put"
  /\ ProcfsExit \in Seq(Calls)
  /\ Released(ProcfsExit) = {"procdir", "procfile", "device", "class", "cdev", "number"}
  /\ \A i \in DOMAIN ProcfsExit : ProcfsExit[i] # "kobject_put"
<1>1. /\ DeviceFileExit \in Seq(Calls) /\ FileOperationExit \in Seq(Calls)
      /\ ProcfsExit \in Seq(Calls)
  BY DEF DeviceFileExit, FileOperationExit, ProcfsExit, Calls, Releases
<1>2. Released(DeviceFileExit) = {"device", "class", "cdev"}
  BY DEF DeviceFileExit, Released, Releases
<1>3. Released(FileOperationExit) = {"memory", "device", "class", "cdev", "number"}
  BY DEF FileOperationExit, Released, Releases
<1>4. Released(ProcfsExit) = {"procdir", "procfile", "device", "class", "cdev", "number"}
  BY DEF ProcfsExit, Released, Releases
<1>5. /\ \A i \in DOMAIN DeviceFileExit : DeviceFileExit[i] # "kobject_put"
      /\ DeviceFileExit[4] = "unregister_3" /\ 4 \in DOMAIN DeviceFileExit
  BY DEF DeviceFileExit
<1>6. \A i \in DOMAIN FileOperationExit : FileOperationExit[i] # "kobject_put"
  BY DEF FileOperationExit
<1>7. \A i \in DOMAIN ProcfsExit : ProcfsExit[i] # "kobject_put"
  BY DEF ProcfsExit
<1>8. QED
  BY <1>1, <1>2, <1>3, <1>4, <1>5, <1>6, <1>7

\* An init function whose only steps are the four for the device file.
LEMMA DeviceFileIsSafe == SafeRecipe("device_file")
<1> DEFINE d == "device_file"
<1>1. /\ Recipes[d] = Recipe(DeviceFileInit, DeviceFileExit) /\ Forgets(d) = {"cdev"}
      /\ Needs(d, "file") = {} /\ Needs(d, "attr") = {}
  BY DEF Recipes, Forgets, Needs, DeviceFileUses, Uses
<1> HIDE DEF d
<1>2. DeviceFileInit \in Seq(Steps) /\ DOMAIN DeviceFileInit = {1, 2, 3, 4}
  BY DeviceFileSteps
<1>3. /\ InitOf(d) = DeviceFileInit
      /\ ExitCalls(d) = {DeviceFileExit[i] : i \in DOMAIN DeviceFileExit}
  BY <1>1, <1>2, RecipeParts, Exits
<1>4. /\ \A k \in {1, 2, 3, 4} : StepFact(d, k)
      /\ InitOf(d)[1].what = "number" /\ InitOf(d)[2].what = "cdev"
      /\ InitOf(d)[3].what = "class" /\ InitOf(d)[4].what = "device"
  BY <1>1, <1>3, DeviceFilePrefix
<1>5. Whats(d) = {"number", "cdev", "class", "device"}
  BY <1>2, <1>3, <1>4 DEF Whats
<1>6. "number" \in Unreleased(d)
  BY <1>3, Exits DEF Unreleased
<1>7. ExitFacts(d)
  <2>1. (Whats(d) \cap Outlives) \ Released(DeviceFileExit) \subseteq Unreleased(d)
    BY <1>5, <1>6, Exits
  <2>2. Whats(d) \cap {"bound", "kobject", "attr"} = {}
    BY <1>5
  <2>3. QED
    BY <1>1, <1>2, <2>1, <2>2, PlainExit, Exits
<1>8. UseFacts(d)
  BY <1>1, <1>5 DEF UseFacts
<1>9. Distinct(d)
  BY <1>2, <1>3, <1>4 DEF Distinct
<1>10. QED
  BY <1>2, <1>3, <1>4, <1>7, <1>8, <1>9 DEF SafeRecipe, StepFacts, d

\* A buffer allocated after the device file is there: its handlers may run
\* before it is.
LEMMA BufferIsSafe ==
  ASSUME NEW d, Recipes[d] = Recipe(FileOperationInit, FileOperationExit),
         Forgets(d) = {"cdev"}, Needs(d, "file") = {"memory"}, Needs(d, "attr") = {}
  PROVE  SafeRecipe(d)
<1> DEFINE rest == <<Step("memory", "null", UndoDevice)>>
<1>1. Step("memory", "null", UndoDevice) \in Steps
  BY StepIn, Names, Undos
<1>2. /\ rest \in Seq(Steps) /\ rest[1] = Step("memory", "null", UndoDevice)
      /\ Len(rest) = 1 /\ 1 \in 1..Len(rest)
  BY <1>1
<1>3. FileOperationInit = DeviceFileInit \o rest
  BY <1>1, DeviceFileSteps, AppendIsConcat DEF FileOperationInit
<1> HIDE DEF rest
<1>4. /\ FileOperationInit \in Seq(Steps) /\ DOMAIN FileOperationInit = {1, 2, 3, 4, 5}
      /\ \A i \in {1, 2, 3, 4} : FileOperationInit[i] = DeviceFileInit[i]
      /\ FileOperationInit[5] = Step("memory", "null", UndoDevice)
  BY <1>2, <1>3, DeviceFileThen
<1>5. InitOf(d) = FileOperationInit
  BY <1>4, RecipeParts, Exits
<1>6. InitOf(d)[5] = Step("memory", "null", UndoDevice) /\ InitOf(d)[5].what = "memory"
  BY <1>4, <1>5 DEF Step
<1>7. /\ \A k \in {1, 2, 3, 4} : StepFact(d, k)
      /\ InitOf(d)[1].what = "number" /\ InitOf(d)[2].what = "cdev"
      /\ InitOf(d)[3].what = "class" /\ InitOf(d)[4].what = "device"
      /\ Before(d, 5) = {"number", "cdev", "class", "device"}
  BY <1>4, <1>5, DeviceFilePrefix
<1>8. StepFact(d, 5)
  <2>1. (Before(d, 5) \cap Outlives) \ Released(UndoDevice) \subseteq Forgets(d)
    BY <1>7, Undos
  <2>2. QED
    BY <1>6, <1>7, <2>1, UndoingStep
<1>9. Whats(d) = {"number", "cdev", "class", "device", "memory"}
  BY <1>4, <1>5, <1>6, <1>7 DEF Whats
<1>10. ExitFacts(d)
  <2>1. (Whats(d) \cap Outlives) \ Released(FileOperationExit) \subseteq Unreleased(d)
    BY <1>9, Exits
  <2>2. Whats(d) \cap {"bound", "kobject", "attr"} = {}
    BY <1>9
  <2>3. QED
    BY <1>4, <2>1, <2>2, PlainExit, Exits
<1>11. LateObject(d)
  BY <1>4, <1>5, <1>6, <1>7 DEF LateObject
<1>12. UseFacts(d)
  BY <1>9, <1>11 DEF UseFacts
<1>13. Distinct(d)
  BY <1>4, <1>5, <1>6, <1>7 DEF Distinct
<1>14. QED
  BY <1>4, <1>5, <1>7, <1>8, <1>10, <1>12, <1>13 DEF SafeRecipe, StepFacts

\* The drivers with an entry in /proc remove it first.
LEMMA ProcfsIsSafe == SafeRecipe("procfs")
<1> DEFINE d == "procfs"
           rest == <<Step("procdir", "null", UndoDevice), Step("procfile", "none", <<>>)>>
<1>1. /\ Recipes[d] = Recipe(ProcfsInit, ProcfsExit) /\ Forgets(d) = {"cdev"}
      /\ Needs(d, "file") = {} /\ Needs(d, "attr") = {}
  BY DEF Recipes, Forgets, Needs, ProcfsUses, Uses
<1>2. Step("procdir", "null", UndoDevice) \in Steps /\ Step("procfile", "none", <<>>) \in Steps
  BY StepIn, Names, Undos
<1>3. /\ rest \in Seq(Steps) /\ rest[1] = Step("procdir", "null", UndoDevice)
      /\ rest[2] = Step("procfile", "none", <<>>)
      /\ Len(rest) = 2 /\ 1 \in 1..Len(rest) /\ 2 \in 1..Len(rest)
  BY <1>2
<1>4. ProcfsInit = DeviceFileInit \o rest
  BY DEF ProcfsInit
<1> HIDE DEF rest, d
<1>5. /\ ProcfsInit \in Seq(Steps) /\ DOMAIN ProcfsInit = {1, 2, 3, 4, 5, 6}
      /\ \A i \in {1, 2, 3, 4} : ProcfsInit[i] = DeviceFileInit[i]
      /\ ProcfsInit[5] = Step("procdir", "null", UndoDevice)
      /\ ProcfsInit[6] = Step("procfile", "none", <<>>)
  BY <1>3, <1>4, DeviceFileThen
<1>6. InitOf(d) = ProcfsInit
  BY <1>1, <1>5, RecipeParts, Exits
<1>7. /\ InitOf(d)[5] = Step("procdir", "null", UndoDevice) /\ InitOf(d)[5].what = "procdir"
      /\ InitOf(d)[6] = Step("procfile", "none", <<>>) /\ InitOf(d)[6].what = "procfile"
  BY <1>5, <1>6 DEF Step
<1>8. /\ \A k \in {1, 2, 3, 4} : StepFact(d, k)
      /\ InitOf(d)[1].what = "number" /\ InitOf(d)[2].what = "cdev"
      /\ InitOf(d)[3].what = "class" /\ InitOf(d)[4].what = "device"
      /\ Before(d, 5) = {"number", "cdev", "class", "device"}
  BY <1>1, <1>5, <1>6, DeviceFilePrefix
<1>9. StepFact(d, 5)
  <2>1. (Before(d, 5) \cap Outlives) \ Released(UndoDevice) \subseteq Forgets(d)
    BY <1>1, <1>8, Undos
  <2>2. QED
    BY <1>1, <1>7, <1>8, <2>1, UndoingStep
<1>10. StepFact(d, 6)
  <2>1. ErrorOf["procfile"] # "none"
    BY DEF ErrorOf
  <2>2. QED
    BY <1>1, <1>7, <2>1, BlindStep
<1>11. Whats(d) = {"number", "cdev", "class", "device", "procdir", "procfile"}
  BY <1>5, <1>6, <1>7, <1>8 DEF Whats
<1>12. ExitFacts(d)
  <2>1. (Whats(d) \cap Outlives) \ Released(ProcfsExit) \subseteq Unreleased(d)
    BY <1>11, Exits
  <2>2. Whats(d) \cap {"bound", "kobject", "attr"} = {}
    BY <1>11
  <2>3. QED
    BY <1>1, <1>5, <2>1, <2>2, PlainExit, Exits
<1>13. UseFacts(d)
  BY <1>1 DEF UseFacts
<1>14. Distinct(d)
  BY <1>5, <1>6, <1>7, <1>8 DEF Distinct
<1>15. QED
  BY <1>5, <1>6, <1>8, <1>9, <1>10, <1>12, <1>13, <1>14 DEF SafeRecipe, StepFacts, d

\* An exit that makes one call and then those of the device file.
OneMore(exit, call) ==
  /\ exit \in Seq(Calls)
  /\ Released(exit) = Releases[call] \cup {"device", "class", "cdev"}
  /\ exit # <<>> /\ exit[1] = call
  /\ \A i \in DOMAIN exit : i = 1 \/ exit[i] # "kobject_put"
  /\ {call, "unregister_3"} \subseteq {exit[i] : i \in DOMAIN exit}

\* An exit that makes one call before it removes the device file.
LEMMA ThenDeviceFileExit ==
  ASSUME NEW call \in Calls
  PROVE  OneMore(<<call>> \o DeviceFileExit, call)
<1> DEFINE one == <<call>> exit == one \o DeviceFileExit
<1>1. one \in Seq(Calls) /\ one[1] = call /\ Len(one) = 1 /\ Released(one) = Releases[call]
  BY DEF Released
<1>2. /\ DeviceFileExit \in Seq(Calls) /\ 4 \in 1..Len(DeviceFileExit)
  BY Exits
<1>3. one \in Seq(Calls) /\ 1 \in 1..Len(one)
  BY <1>1
<1> HIDE DEF one
<1>4. /\ one \o DeviceFileExit \in Seq(Calls)
      /\ Released(one \o DeviceFileExit) = Released(one) \cup Released(DeviceFileExit)
  BY <1>2, <1>3, ReleasedBoth
<1>5. DOMAIN (one \o DeviceFileExit) = 1..(Len(one) + Len(DeviceFileExit))
  BY <1>2, <1>3
<1>6. /\ (one \o DeviceFileExit)[1] = one[1]
      /\ \A i \in 1..Len(DeviceFileExit) :
           (one \o DeviceFileExit)[Len(one) + i] = DeviceFileExit[i]
  BY <1>2, <1>3, JoinedLeft, JoinedRight
<1>7. ASSUME NEW i \in DOMAIN (one \o DeviceFileExit)
      PROVE  i = 1 \/ (one \o DeviceFileExit)[i] # "kobject_put"
  <2>1. i = 1 \/ (i - 1 \in DOMAIN DeviceFileExit /\ i = Len(one) + (i - 1))
    BY <1>1, <1>2, <1>5
  <2>2. CASE i - 1 \in DOMAIN DeviceFileExit /\ i = Len(one) + (i - 1)
    <3>1. (one \o DeviceFileExit)[i] = DeviceFileExit[i - 1]
      BY <2>2, <1>2, <1>6
    <3>2. QED
      BY <3>1, <2>2, Exits
  <2>3. QED
    BY <2>1, <2>2
<1>8. /\ 1 \in DOMAIN (one \o DeviceFileExit) /\ Len(one) + 4 \in DOMAIN (one \o DeviceFileExit)
      /\ (one \o DeviceFileExit)[Len(one) + 4] = "unregister_3"
  BY <1>1, <1>2, <1>5, <1>6, Exits
<1>9. exit \in Seq(Calls) /\ exit[1] = call /\ 1 \in DOMAIN exit /\ exit # <<>>
  BY <1>1, <1>4, <1>6, <1>8
<1>10. Released(exit) = Releases[call] \cup {"device", "class", "cdev"}
  BY <1>1, <1>4, Exits
<1>11. {call, "unregister_3"} \subseteq {exit[i] : i \in DOMAIN exit}
  BY <1>1, <1>6, <1>8
<1>12. \A i \in DOMAIN exit : i = 1 \/ exit[i] # "kobject_put"
  BY <1>7
<1> HIDE DEF exit
<1>13. OneMore(exit, call)
  BY <1>9, <1>10, <1>11, <1>12 DEF OneMore
<1>14. QED
  BY <1>13 DEF exit, one

\* The exits of the wait-queue drivers wake the thread first.
LEMMA WaitExit ==
  /\ StaticWaitExit \in Seq(Calls)
  /\ Released(StaticWaitExit) = {"device", "class", "cdev"}
  /\ \A i \in DOMAIN StaticWaitExit : StaticWaitExit[i] # "kobject_put"
  /\ {"wake_thread", "unregister_3"} \subseteq
       {StaticWaitExit[i] : i \in DOMAIN StaticWaitExit}
<1>1. "wake_thread" \in Calls /\ Releases["wake_thread"] = {}
  BY DEF Calls, Releases
<1>2. OneMore(StaticWaitExit, "wake_thread")
  BY <1>1, ThenDeviceFileExit DEF StaticWaitExit
<1>3. QED
  BY <1>1, <1>2 DEF OneMore

\* A driver that starts a thread with nothing to test the result for.
LEMMA StaticWaitIsSafe == SafeRecipe("static_waitqueue")
<1> DEFINE d == "static_waitqueue"
           rest == <<Step("thread", "used", <<>>)>>
<1>1. /\ Recipes[d] = Recipe(StaticWaitInit, StaticWaitExit) /\ Forgets(d) = {"cdev"}
      /\ Needs(d, "file") = {} /\ Needs(d, "attr") = {}
  BY DEF Recipes, Forgets, Needs, StaticWaitUses, Uses
<1>2. Step("thread", "used", <<>>) \in Steps
  BY StepIn, Names
<1>3. /\ rest \in Seq(Steps) /\ rest[1] = Step("thread", "used", <<>>)
      /\ Len(rest) = 1 /\ 1 \in 1..Len(rest)
  BY <1>2
<1>4. StaticWaitInit = DeviceFileInit \o rest
  BY <1>2, DeviceFileSteps, AppendIsConcat DEF StaticWaitInit
<1> HIDE DEF rest, d
<1>5. /\ StaticWaitInit \in Seq(Steps) /\ DOMAIN StaticWaitInit = {1, 2, 3, 4, 5}
      /\ \A i \in {1, 2, 3, 4} : StaticWaitInit[i] = DeviceFileInit[i]
      /\ StaticWaitInit[5] = Step("thread", "used", <<>>)
  BY <1>3, <1>4, DeviceFileThen
<1>6. /\ InitOf(d) = StaticWaitInit
      /\ ExitCalls(d) = {StaticWaitExit[i] : i \in DOMAIN StaticWaitExit}
  BY <1>1, <1>5, RecipeParts, WaitExit
<1>7. InitOf(d)[5] = Step("thread", "used", <<>>) /\ InitOf(d)[5].what = "thread"
  BY <1>5, <1>6 DEF Step
<1>8. /\ \A k \in {1, 2, 3, 4} : StepFact(d, k)
      /\ InitOf(d)[1].what = "number" /\ InitOf(d)[2].what = "cdev"
      /\ InitOf(d)[3].what = "class" /\ InitOf(d)[4].what = "device"
  BY <1>1, <1>5, <1>6, DeviceFilePrefix
<1>9. StepFact(d, 5)
  <2>1. ErrorOf["thread"] # "used"
    BY DEF ErrorOf
  <2>2. QED
    BY <1>1, <1>7, <2>1, BlindStep
<1>10. Whats(d) = {"number", "cdev", "class", "device", "thread"}
  BY <1>5, <1>6, <1>7, <1>8 DEF Whats
<1>11. ExitFacts(d)
  <2>1. {"number", "thread"} \subseteq Unreleased(d)
    BY <1>6, WaitExit DEF Unreleased
  <2>2. (Whats(d) \cap Outlives) \ Released(StaticWaitExit) \subseteq Unreleased(d)
    BY <1>10, <2>1, WaitExit
  <2>3. Whats(d) \cap {"bound", "kobject", "attr"} = {}
    BY <1>10
  <2>4. QED
    BY <1>1, <1>5, <2>2, <2>3, PlainExit, WaitExit
<1>12. UseFacts(d)
  BY <1>1 DEF UseFacts
<1>13. Distinct(d)
  BY <1>5, <1>6, <1>7, <1>8 DEF Distinct
<1>14. QED
  BY <1>5, <1>6, <1>8, <1>9, <1>11, <1>12, <1>13 DEF SafeRecipe, StepFacts, d

\* The queue head of the other is made after the device file.
LEMMA DynamicWaitIsSafe == SafeRecipe("dynamic_waitqueue")
<1> DEFINE d == "dynamic_waitqueue"
           rest == <<Step("queue", "none", <<>>), Step("thread", "used", <<>>)>>
<1>1. /\ Recipes[d] = Recipe(DynamicWaitInit, StaticWaitExit) /\ Forgets(d) = {"cdev"}
      /\ Needs(d, "file") = {"queue"} /\ Needs(d, "attr") = {}
  BY DEF Recipes, Forgets, Needs, DynamicWaitUses, Uses, DynamicWaitExit
<1>2. Step("queue", "none", <<>>) \in Steps /\ Step("thread", "used", <<>>) \in Steps
  BY StepIn, Names
<1>3. /\ rest \in Seq(Steps) /\ rest[1] = Step("queue", "none", <<>>)
      /\ rest[2] = Step("thread", "used", <<>>)
      /\ Len(rest) = 2 /\ 1 \in 1..Len(rest) /\ 2 \in 1..Len(rest)
  BY <1>2
<1>4. DynamicWaitInit = DeviceFileInit \o rest
  BY DEF DynamicWaitInit
<1> HIDE DEF rest, d
<1>5. /\ DynamicWaitInit \in Seq(Steps) /\ DOMAIN DynamicWaitInit = {1, 2, 3, 4, 5, 6}
      /\ \A i \in {1, 2, 3, 4} : DynamicWaitInit[i] = DeviceFileInit[i]
      /\ DynamicWaitInit[5] = Step("queue", "none", <<>>)
      /\ DynamicWaitInit[6] = Step("thread", "used", <<>>)
  BY <1>3, <1>4, DeviceFileThen
<1>6. /\ InitOf(d) = DynamicWaitInit
      /\ ExitCalls(d) = {StaticWaitExit[i] : i \in DOMAIN StaticWaitExit}
  BY <1>1, <1>5, RecipeParts, WaitExit
<1>7. /\ InitOf(d)[5] = Step("queue", "none", <<>>) /\ InitOf(d)[5].what = "queue"
      /\ InitOf(d)[6] = Step("thread", "used", <<>>) /\ InitOf(d)[6].what = "thread"
  BY <1>5, <1>6 DEF Step
<1>8. /\ \A k \in {1, 2, 3, 4} : StepFact(d, k)
      /\ InitOf(d)[1].what = "number" /\ InitOf(d)[2].what = "cdev"
      /\ InitOf(d)[3].what = "class" /\ InitOf(d)[4].what = "device"
  BY <1>1, <1>5, <1>6, DeviceFilePrefix
<1>9. StepFact(d, 5) /\ StepFact(d, 6)
  <2>1. ErrorOf["queue"] # "none" /\ ErrorOf["thread"] # "used"
    BY DEF ErrorOf
  <2>2. QED
    BY <1>1, <1>7, <2>1, BlindStep
<1>10. Whats(d) = {"number", "cdev", "class", "device", "queue", "thread"}
  BY <1>5, <1>6, <1>7, <1>8 DEF Whats
<1>11. ExitFacts(d)
  <2>1. {"number", "thread"} \subseteq Unreleased(d)
    BY <1>6, WaitExit DEF Unreleased
  <2>2. (Whats(d) \cap Outlives) \ Released(StaticWaitExit) \subseteq Unreleased(d)
    BY <1>10, <2>1, WaitExit DEF Outlives
  <2>3. Whats(d) \cap {"bound", "kobject", "attr"} = {}
    BY <1>10
  <2>4. QED
    BY <1>1, <1>5, <2>2, <2>3, PlainExit, WaitExit
<1>12. LateObject(d)
  BY <1>1, <1>5, <1>6, <1>7, <1>8 DEF LateObject
<1>13. UseFacts(d)
  BY <1>1, <1>12 DEF UseFacts
<1>14. Distinct(d)
  BY <1>5, <1>6, <1>7, <1>8 DEF Distinct
<1>15. QED
  BY <1>5, <1>6, <1>8, <1>9, <1>11, <1>13, <1>14 DEF SafeRecipe, StepFacts, d

\* The two drivers that only take a device number.
LEMMA NumberOnly ==
  ASSUME NEW d, NEW what \in {"major", "number"}, NEW call \in Calls,
         Recipes[d] = Recipe(<<Step(what, "negative", <<>>)>>, <<call>>),
         Releases[call] = {what}, call # "kobject_put", Forgets(d) = {"cdev"},
         Needs(d, "file") = {}, Needs(d, "attr") = {}
  PROVE  SafeRecipe(d)
<1> DEFINE init == <<Step(what, "negative", <<>>)>> exit == <<call>>
<1>1. Step(what, "negative", <<>>) \in Steps
  BY StepIn, Names
<1>2. /\ init \in Seq(Steps) /\ DOMAIN init = {1} /\ init[1] = Step(what, "negative", <<>>)
      /\ exit \in Seq(Calls) /\ Released(exit) = {what}
      /\ \A i \in DOMAIN exit : exit[i] # "kobject_put"
  BY <1>1 DEF Released
<1>3. Recipes[d] = Recipe(init, exit)
  OBVIOUS
<1> HIDE DEF init, exit
<1>4. InitOf(d) = init
  BY <1>2, <1>3, RecipeParts
<1>5. InitOf(d)[1] = Step(what, "negative", <<>>) /\ InitOf(d)[1].what = what
  BY <1>2, <1>4 DEF Step
<1>6. StepFact(d, 1)
  <2>1. Before(d, 1) = {}
    BY BeforeIs
  <2>2. (Before(d, 1) \cap Outlives) \ Released(<<>>) \subseteq Forgets(d)
    BY <2>1
  <2>3. QED
    BY <1>5, <2>1, <2>2, UndoingStep
<1>7. Whats(d) = {what}
  BY <1>2, <1>4, <1>5 DEF Whats
<1>8. ExitFacts(d)
  BY <1>2, <1>3, <1>7, PlainExit
<1>9. UseFacts(d)
  BY <1>7 DEF UseFacts
<1>10. Distinct(d)
  BY <1>2, <1>4 DEF Distinct
<1>11. QED
  BY <1>2, <1>4, <1>6, <1>8, <1>9, <1>10 DEF SafeRecipe, StepFacts

\* The two drivers that do no more than take a device number.
LEMMA NumberOnlyAreSafe == SafeRecipe("dev_numb") /\ SafeRecipe("major_minor")
<1>1. /\ "unregister_chrdev" \in Calls /\ Releases["unregister_chrdev"] = {"major"}
      /\ "unregister_1" \in Calls /\ Releases["unregister_1"] = {"number"}
  BY DEF Calls, Releases
<1>2. /\ Recipes["dev_numb"] =
           Recipe(<<Step("major", "negative", <<>>)>>, <<"unregister_chrdev">>)
      /\ Recipes["major_minor"] =
           Recipe(<<Step("number", "negative", <<>>)>>, <<"unregister_1">>)
  BY DEF Recipes, DevNumbInit, DevNumbExit, MajorMinorInit, MajorMinorExit
<1>3. /\ Forgets("dev_numb") = {"cdev"} /\ Forgets("major_minor") = {"cdev"}
      /\ Needs("dev_numb", "file") = {} /\ Needs("dev_numb", "attr") = {}
      /\ Needs("major_minor", "file") = {} /\ Needs("major_minor", "attr") = {}
  BY DEF Forgets, Needs, DevNumbUses, NoHandlers, Uses
<1>4. SafeRecipe("dev_numb")
  BY <1>1, <1>2, <1>3, NumberOnly
<1>5. SafeRecipe("major_minor")
  BY <1>1, <1>2, <1>3, NumberOnly
<1>6. QED
  BY <1>4, <1>5

\* The labels of sysfs.c forget the device and nothing else.
LEMMA SysfsUndos ==
  ASSUME NEW steps \in Seq(Calls)
  PROVE  /\ SysfsUndo(steps) \in Seq(Calls)
         /\ Released(SysfsUndo(steps)) = Released(steps) \cup {"number", "cdev"}
<1>1. /\ <<"unregister_1", "cdev_del">> \in Seq(Calls)
      /\ Released(<<"unregister_1", "cdev_del">>) = {"number", "cdev"}
  BY DEF Calls, Released, Releases
<1>2. \A t \in Seq(Calls) :
        /\ steps \o t \in Seq(Calls)
        /\ Released(steps \o t) = Released(steps) \cup Released(t)
  BY ReleasedBoth
<1>3. /\ steps \o <<"unregister_1", "cdev_del">> \in Seq(Calls)
      /\ Released(steps \o <<"unregister_1", "cdev_del">>) =
           Released(steps) \cup {"number", "cdev"}
  BY <1>1, <1>2
<1>4. QED
  BY <1>3 DEF SysfsUndo

\* The steps of the init function of the sysfs driver, one by one.
LEMMA SysfsSteps ==
  /\ SysfsInit \in Seq(Steps) /\ DOMAIN SysfsInit = {1, 2, 3, 4, 5, 6}
  /\ SysfsInit[1] = Step("number", "negative", <<>>)
  /\ SysfsInit[2] = Step("cdev", "negative", SysfsUndo(<<>>))
  /\ SysfsInit[3] = Step("class", "null", SysfsUndo(<<>>))
  /\ SysfsInit[4] = Step("device", "null", SysfsUndo(<<"class_destroy">>))
  /\ SysfsInit[5] = Step("kobject", "none", <<>>)
  /\ SysfsInit[6] =
       Step("attr", "negative", SysfsUndo(<<"kobject_put", "class_destroy">>))
<1>1. <<"class_destroy">> \in Seq(Calls) /\ <<"kobject_put", "class_destroy">> \in Seq(Calls)
  BY DEF Calls, Releases
<1>2. /\ Step("number", "negative", <<>>) \in Steps
      /\ Step("cdev", "negative", SysfsUndo(<<>>)) \in Steps
      /\ Step("class", "null", SysfsUndo(<<>>)) \in Steps
      /\ Step("device", "null", SysfsUndo(<<"class_destroy">>)) \in Steps
      /\ Step("kobject", "none", <<>>) \in Steps
      /\ Step("attr", "negative", SysfsUndo(<<"kobject_put", "class_destroy">>)) \in Steps
  BY <1>1, StepIn, Names, SysfsUndos
<1>3. QED
  BY <1>2 DEF SysfsInit

\* The sysfs driver gives its kobject back before the device file.
LEMMA SysfsIsSafe == SafeRecipe("sysfs")
<1> DEFINE d == "sysfs"
<1>1. /\ Recipes[d] = Recipe(SysfsInit, SysfsExit) /\ Forgets(d) = {"device"}
      /\ Needs(d, "file") = {} /\ Needs(d, "attr") = {}
  BY DEF Recipes, Forgets, Needs, SysfsUses, Uses
<1> HIDE DEF d
<1>2. "kobject_put" \in Calls /\ Releases["kobject_put"] = {"kobject", "attr"}
  BY DEF Calls, Releases
<1>3. OneMore(SysfsExit, "kobject_put")
  BY <1>2, ThenDeviceFileExit DEF SysfsExit
<1>4. /\ InitOf(d) = SysfsInit /\ ExitAll(d) = SysfsExit
      /\ Recipes[d].remove = <<>> /\ Recipes[d].exit = SysfsExit
      /\ ExitCalls(d) = {SysfsExit[i] : i \in DOMAIN SysfsExit}
  <2>1. SysfsInit \in Seq(Steps) /\ SysfsExit \in Seq(Calls)
    BY <1>3, SysfsSteps DEF OneMore
  <2>2. InitOf(d) = SysfsInit /\ ExitAll(d) = SysfsExit
    BY <1>1, <2>1, RecipeParts
  <2>3. Recipes[d].remove = <<>> /\ Recipes[d].exit = SysfsExit
    BY <1>1, <2>1, RecipeParts
  <2>4. ExitCalls(d) = {SysfsExit[i] : i \in DOMAIN SysfsExit}
    BY <2>3 DEF ExitCalls
  <2>5. QED
    BY <2>2, <2>3, <2>4
<1>5. /\ InitOf(d)[1] = Step("number", "negative", <<>>)
      /\ InitOf(d)[2] = Step("cdev", "negative", SysfsUndo(<<>>))
      /\ InitOf(d)[3] = Step("class", "null", SysfsUndo(<<>>))
      /\ InitOf(d)[4] = Step("device", "null", SysfsUndo(<<"class_destroy">>))
      /\ InitOf(d)[5] = Step("kobject", "none", <<>>)
      /\ InitOf(d)[6] =
           Step("attr", "negative", SysfsUndo(<<"kobject_put", "class_destroy">>))
  BY <1>4, SysfsSteps
<1>6. /\ InitOf(d)[1].what = "number" /\ InitOf(d)[2].what = "cdev"
      /\ InitOf(d)[3].what = "class" /\ InitOf(d)[4].what = "device"
      /\ InitOf(d)[5].what = "kobject" /\ InitOf(d)[6].what = "attr"
  BY <1>5 DEF Step
<1>7. StepFact(d, 1)
  <2>1. Before(d, 1) = {}
    BY BeforeIs
  <2>2. (Before(d, 1) \cap Outlives) \ Released(<<>>) \subseteq Forgets(d)
    BY <2>1
  <2>3. QED
    BY <1>1, <1>5, <2>1, <2>2, UndoingStep
<1>8. StepFact(d, 2)
  <2>1. Before(d, 2) = {"number"}
    BY <1>6, BeforeIs
  <2>2. (Before(d, 2) \cap Outlives) \ Released(SysfsUndo(<<>>)) \subseteq Forgets(d)
    BY <2>1, SysfsUndos, Names
  <2>3. QED
    BY <1>1, <1>5, <2>1, <2>2, UndoingStep
<1>9. StepFact(d, 3) /\ StepFact(d, 4) /\ StepFact(d, 5)
  <2>1. ErrorOf["class"] # "null" /\ ErrorOf["device"] # "null" /\ ErrorOf["kobject"] # "none"
    BY DEF ErrorOf
  <2>2. QED
    BY <1>1, <1>5, <2>1, BlindStep
<1>10. StepFact(d, 6)
  <2>1. Before(d, 6) = {"number", "cdev", "class", "device", "kobject"}
    BY <1>6, BeforeIs
  <2>2. /\ <<"kobject_put", "class_destroy">> \in Seq(Calls)
        /\ Released(<<"kobject_put", "class_destroy">>) = {"kobject", "attr", "class"}
    BY DEF Calls, Released, Releases
  <2>3. Released(SysfsUndo(<<"kobject_put", "class_destroy">>)) =
          {"kobject", "attr", "class", "number", "cdev"}
    BY <2>2, SysfsUndos
  <2>4. (Before(d, 6) \cap Outlives) \ Released(SysfsUndo(<<"kobject_put", "class_destroy">>))
          \subseteq Forgets(d)
    BY <2>1, <2>3, <1>1
  <2>5. /\ InitOf(d)[6] =
             Step("attr", "negative", SysfsUndo(<<"kobject_put", "class_destroy">>))
        /\ "platform" \notin Before(d, 6)
    BY <1>5, <2>1
  <2>6. Needs(d, "attr") = {}
    BY <1>1
  <2>7. QED
    BY <2>4, <2>5, <2>6, UndoingStep
<1>11. Whats(d) = {"number", "cdev", "class", "device", "kobject", "attr"}
  BY <1>4, <1>6, SysfsSteps DEF Whats
<1>12. ExitFacts(d)
  <2>1. {"number"} \subseteq Unreleased(d)
    BY <1>3, <1>4 DEF OneMore, Unreleased
  <2>2. Released(SysfsExit) = {"kobject", "attr", "device", "class", "cdev"}
    BY <1>2, <1>3 DEF OneMore
  <2>3. (Whats(d) \cap Outlives) \ Released(ExitAll(d)) \subseteq Unreleased(d)
    BY <2>1, <2>2, <1>4, <1>11
  <2>4. Forgets(d) \cap Entries("attr") = {} /\ "bound" \notin Forgets(d)
    BY <1>1 DEF Entries
  <2>5. QED
    BY <1>3, <1>4, <1>11, <2>3, <2>4, Names DEF ExitFacts, OneMore
<1>13. UseFacts(d)
  BY <1>1 DEF UseFacts
<1>14. Distinct(d)
  BY <1>4, <1>6, SysfsSteps DEF Distinct
<1>15. QED
  BY <1>4, <1>7, <1>8, <1>9, <1>10, <1>12, <1>13, SysfsSteps, <1>14 DEF SafeRecipe, StepFacts, d

\* The init function of a platform driver, and then its probe.
LEMMA PlatformSteps ==
  ASSUME NEW probe \in Seq(Steps)
  PROVE  /\ PlatformInit \o probe \in Seq(Steps)
         /\ DOMAIN (PlatformInit \o probe) = 1..(1 + Len(probe))
         /\ (PlatformInit \o probe)[1] = Step("platform", "negative", <<>>)
         /\ \A i \in 1..Len(probe) : (PlatformInit \o probe)[1 + i] = probe[i]
<1>1. /\ PlatformInit \in Seq(Steps) /\ Len(PlatformInit) = 1
      /\ PlatformInit[1] = Step("platform", "negative", <<>>)
  <2>1. Step("platform", "negative", <<>>) \in Steps
    BY StepIn, Names
  <2>2. QED
    BY <2>1 DEF PlatformInit
<1>2. PlatformInit \in Seq(Steps) /\ 1 \in 1..Len(PlatformInit)
  BY <1>1
<1>3. /\ PlatformInit \o probe \in Seq(Steps)
      /\ Len(PlatformInit \o probe) = Len(PlatformInit) + Len(probe)
  BY <1>2, ConcatProperties
<1>4. /\ (PlatformInit \o probe)[1] = PlatformInit[1]
      /\ \A i \in 1..Len(probe) : (PlatformInit \o probe)[Len(PlatformInit) + i] = probe[i]
  BY <1>2, JoinedLeft, JoinedRight
<1>5. QED
  BY <1>1, <1>3, <1>4

\* An exit of one call, after what remove does.
LEMMA PlatformExits ==
  /\ PlatformExit \in Seq(Calls) /\ Released(PlatformExit) = {"platform"}
  /\ \A i \in DOMAIN PlatformExit : PlatformExit[i] # "kobject_put"
BY DEF PlatformExit, Calls, Released, Releases

\* A platform driver that cannot register has nothing to undo.
LEMMA PlatformFacts ==
  ASSUME NEW d, InitOf(d)[1] = Step("platform", "negative", <<>>)
  PROVE  StepFact(d, 1)
<1>1. Before(d, 1) = {}
  BY BeforeIs
<1>2. QED
  BY <1>1 DEF StepFact, Step, Entries

\* A failed probe keeps the driver registered.
LEMMA ProbingStep ==
  ASSUME NEW d, NEW k, NEW what, NEW test, NEW undo,
         InitOf(d)[k] = Step(what, test, undo), what \notin Entries("attr"),
         "platform" \in Before(d, k),
         Before(d, k) \cap Outlives \subseteq {"platform"} \cup Forgets(d)
  PROVE  StepFact(d, k)
BY DEF StepFact, Step

\* The virtual platform driver maps its registers and binds.
LEMMA VirtualIsSafe == SafeRecipe("virtual_driver")
<1> DEFINE d == "virtual_driver"
<1>1. /\ Recipes[d] = PlatformRecipe(VirtualProbe, VirtualRemove) /\ Forgets(d) = {"cdev"}
      /\ Needs(d, "file") = {} /\ Needs(d, "attr") = {}
  BY DEF Recipes, Forgets, Needs, NoHandlers, Uses
<1> HIDE DEF d
<1>2. /\ VirtualProbe \in Seq(Steps) /\ Len(VirtualProbe) = 2
      /\ VirtualProbe[1] = Step("iomem", "errptr", <<>>)
      /\ VirtualProbe[2] = Step("bound", "none", <<>>)
  <2>1. Step("iomem", "errptr", <<>>) \in Steps /\ Step("bound", "none", <<>>) \in Steps
    BY StepIn, Names
  <2>2. QED
    BY <2>1 DEF VirtualProbe
<1>3. /\ VirtualRemove \in Seq(Calls) /\ Released(VirtualRemove) = {"iomem", "bound"}
      /\ \A i \in DOMAIN VirtualRemove : VirtualRemove[i] # "kobject_put"
  BY DEF VirtualRemove, Calls, Released, Releases
<1>4. /\ InitOf(d) = PlatformInit \o VirtualProbe
      /\ ExitAll(d) = VirtualRemove \o PlatformExit
      /\ Recipes[d].remove = VirtualRemove /\ Recipes[d].exit = PlatformExit
  <2>1. /\ Recipes[d].init = PlatformInit /\ Recipes[d].probe = VirtualProbe
        /\ Recipes[d].remove = VirtualRemove /\ Recipes[d].exit = PlatformExit
    BY <1>1 DEF PlatformRecipe
  <2>2. QED
    BY <2>1 DEF InitOf, ExitAll
<1>5. VirtualProbe \in Seq(Steps) /\ 1 \in 1..Len(VirtualProbe) /\ 2 \in 1..Len(VirtualProbe)
      /\ 1..(1 + Len(VirtualProbe)) = {1, 2, 3}
  BY <1>2
<1>6. /\ InitOf(d) \in Seq(Steps) /\ DOMAIN InitOf(d) = {1, 2, 3}
      /\ InitOf(d)[1] = Step("platform", "negative", <<>>)
      /\ InitOf(d)[2] = Step("iomem", "errptr", <<>>)
      /\ InitOf(d)[3] = Step("bound", "none", <<>>)
  <2>1. /\ (PlatformInit \o VirtualProbe)[1 + 1] = VirtualProbe[1]
        /\ (PlatformInit \o VirtualProbe)[1 + 2] = VirtualProbe[2]
        /\ (PlatformInit \o VirtualProbe)[1] = Step("platform", "negative", <<>>)
        /\ PlatformInit \o VirtualProbe \in Seq(Steps)
        /\ DOMAIN (PlatformInit \o VirtualProbe) = {1, 2, 3}
    BY <1>5, PlatformSteps
  <2>2. 1 + 1 = 2 /\ 1 + 2 = 3
    OBVIOUS
  <2>3. /\ (PlatformInit \o VirtualProbe)[2] = VirtualProbe[1]
        /\ (PlatformInit \o VirtualProbe)[3] = VirtualProbe[2]
    BY <2>1, <2>2
  <2>4. QED
    BY <2>1, <2>3, <1>2, <1>4
<1>7. /\ InitOf(d)[1].what = "platform" /\ InitOf(d)[2].what = "iomem"
      /\ InitOf(d)[3].what = "bound"
  BY <1>6 DEF Step
<1>8. StepFact(d, 1)
  BY <1>6, PlatformFacts
<1>9. StepFact(d, 2)
  <2>1. Before(d, 2) = {"platform"}
    BY <1>7, BeforeIs
  <2>2. "iomem" \notin Entries("attr")
    BY DEF Entries
  <2>3. QED
    BY <1>6, <2>1, <2>2, ProbingStep
<1>10. StepFact(d, 3)
  <2>1. ErrorOf["bound"] # "none"
    BY DEF ErrorOf
  <2>2. QED
    BY <1>1, <1>6, <2>1, BlindStep
<1>11. Whats(d) = {"platform", "iomem", "bound"}
  BY <1>6, <1>7 DEF Whats
<1>12. ExitFacts(d)
  <2>1. Released(ExitAll(d)) = {"iomem", "bound", "platform"}
    BY <1>3, <1>4, PlatformExits, ReleasedBoth
  <2>2. \A i \in DOMAIN ExitAll(d) : ExitAll(d)[i] # "kobject_put"
    BY <1>3, <1>4, PlatformExits, Joined
  <2>3. Forgets(d) \cap Entries("attr") = {} /\ "bound" \notin Forgets(d)
    BY <1>1 DEF Entries
  <2>4. QED
    BY <1>3, <1>4, <1>11, <2>1, <2>2, <2>3, PlatformExits DEF ExitFacts
<1>13. UseFacts(d)
  BY <1>1 DEF UseFacts
<1>14. Distinct(d)
  BY <1>6, <1>7 DEF Distinct
<1>15. QED
  BY <1>6, <1>8, <1>9, <1>10, <1>12, <1>13, <1>14 DEF SafeRecipe, StepFacts, d

\* A failure that the driver tolerates may take the kobject away, no more.
LEMMA ToleratedStep ==
  ASSUME NEW d, NEW k, NEW what, NEW test, NEW undo,
         InitOf(d)[k] = Tolerate(what, test, undo),
         Released(undo) \cap Before(d, k) \subseteq {"kobject"},
         Needs(d, "attr") \subseteq Before(d, k)
  PROVE  StepFact(d, k)
<1> DEFINE step == Tolerate(what, test, undo)
<1>1. step.undo = undo /\ step.next = "go on" /\ step.next # "abort"
  BY DEF Tolerate
<1>2. InitOf(d)[k] = step
  OBVIOUS
<1> HIDE DEF step
<1>3. QED
  BY <1>1, <1>2 DEF StepFact

\* The LED driver makes its entry last, tolerates its failure, and removes it
\* before what the entry's handlers use.
LEMMA LedSteps ==
  /\ LedProbe \in Seq(Steps) /\ Len(LedProbe) = 8
  /\ LedProbe[1] = Step("memory", "used", <<>>)
  /\ LedProbe[2] = Step("pin", "none", <<>>)
  /\ LedProbe[3] = Step("node", "none", <<>>)
  /\ LedProbe[4] = Step("base", "none", <<>>)
  /\ LedProbe[5] = Step("mapping", "null", <<>>)
  /\ LedProbe[6] = Step("kobject", "null", <<>>)
  /\ LedProbe[7] = Tolerate("attr", "negative", <<"kobject_put">>)
  /\ LedProbe[8] = Step("bound", "none", <<>>)
<1>1. <<"kobject_put">> \in Seq(Calls)
  BY DEF Calls, Releases
<1>2. /\ Step("memory", "used", <<>>) \in Steps /\ Step("pin", "none", <<>>) \in Steps
      /\ Step("node", "none", <<>>) \in Steps /\ Step("base", "none", <<>>) \in Steps
      /\ Step("mapping", "null", <<>>) \in Steps /\ Step("kobject", "null", <<>>) \in Steps
      /\ Step("bound", "none", <<>>) \in Steps
      /\ Tolerate("attr", "negative", <<"kobject_put">>) \in Steps
  BY <1>1, StepIn, Names
<1>3. QED
  BY <1>2 DEF LedProbe

\* What the remove function of the LED driver calls: the kobject goes first.
LEMMA LedRemoves ==
  /\ LedRemove \in Seq(Calls)
  /\ Released(LedRemove) = {"kobject", "attr", "mapping", "memory", "bound"}
  /\ LedRemove[1] = "kobject_put" /\ 1 \in 1..Len(LedRemove)
  /\ \A i \in DOMAIN LedRemove : LedRemove[i] = "kobject_put" => i = 1
<1>1. LedRemove \in Seq(Calls)
  BY DEF LedRemove, Calls, Releases
<1>2. Released(LedRemove) = {"kobject", "attr", "mapping", "memory", "bound"}
  BY DEF LedRemove, Released, Releases
<1>3. /\ LedRemove[1] = "kobject_put" /\ 1 \in 1..Len(LedRemove)
      /\ \A i \in DOMAIN LedRemove : LedRemove[i] = "kobject_put" => i = 1
  BY DEF LedRemove
<1>4. QED
  BY <1>1, <1>2, <1>3

\* The LED driver.
LEMMA LedIsSafe == SafeRecipe("led_reconf")
<1> DEFINE d == "led_reconf"
<1>1. /\ Recipes[d] = PlatformRecipe(LedProbe, LedRemove)
      /\ Forgets(d) = {"memory", "mapping", "node"} /\ "node" \in Unreleased(d)
      /\ Needs(d, "file") = {} /\ Needs(d, "attr") = {"memory", "base", "mapping"}
  BY DEF Recipes, Forgets, Unreleased, Needs, LedUses, Uses
<1> HIDE DEF d
<1>2. /\ InitOf(d) = PlatformInit \o LedProbe /\ ExitAll(d) = LedRemove \o PlatformExit
      /\ Recipes[d].remove = LedRemove /\ Recipes[d].exit = PlatformExit
  <2>1. /\ Recipes[d].init = PlatformInit /\ Recipes[d].probe = LedProbe
        /\ Recipes[d].remove = LedRemove /\ Recipes[d].exit = PlatformExit
    BY <1>1 DEF PlatformRecipe
  <2>2. QED
    BY <2>1 DEF InitOf, ExitAll
<1>3. /\ LedProbe \in Seq(Steps) /\ \A i \in {1, 2, 3, 4, 5, 6, 7, 8} : i \in 1..Len(LedProbe)
      /\ 1..(1 + Len(LedProbe)) = {1, 2, 3, 4, 5, 6, 7, 8, 9}
  BY LedSteps
<1>4. /\ InitOf(d) \in Seq(Steps) /\ DOMAIN InitOf(d) = {1, 2, 3, 4, 5, 6, 7, 8, 9}
      /\ InitOf(d)[1] = Step("platform", "negative", <<>>)
      /\ InitOf(d)[2] = Step("memory", "used", <<>>)
      /\ InitOf(d)[3] = Step("pin", "none", <<>>)
      /\ InitOf(d)[4] = Step("node", "none", <<>>)
      /\ InitOf(d)[5] = Step("base", "none", <<>>)
      /\ InitOf(d)[6] = Step("mapping", "null", <<>>)
      /\ InitOf(d)[7] = Step("kobject", "null", <<>>)
      /\ InitOf(d)[8] = Tolerate("attr", "negative", <<"kobject_put">>)
      /\ InitOf(d)[9] = Step("bound", "none", <<>>)
  <2>1. /\ \A i \in {1, 2, 3, 4, 5, 6, 7, 8} : (PlatformInit \o LedProbe)[1 + i] = LedProbe[i]
        /\ (PlatformInit \o LedProbe)[1] = Step("platform", "negative", <<>>)
        /\ PlatformInit \o LedProbe \in Seq(Steps)
        /\ DOMAIN (PlatformInit \o LedProbe) = {1, 2, 3, 4, 5, 6, 7, 8, 9}
    BY <1>3, PlatformSteps
  <2>2. /\ 1 + 1 = 2 /\ 1 + 2 = 3 /\ 1 + 3 = 4 /\ 1 + 4 = 5 /\ 1 + 5 = 6
        /\ 1 + 6 = 7 /\ 1 + 7 = 8 /\ 1 + 8 = 9
    OBVIOUS
  <2>3. /\ (PlatformInit \o LedProbe)[2] = LedProbe[1]
        /\ (PlatformInit \o LedProbe)[3] = LedProbe[2]
        /\ (PlatformInit \o LedProbe)[4] = LedProbe[3]
        /\ (PlatformInit \o LedProbe)[5] = LedProbe[4]
        /\ (PlatformInit \o LedProbe)[6] = LedProbe[5]
        /\ (PlatformInit \o LedProbe)[7] = LedProbe[6]
        /\ (PlatformInit \o LedProbe)[8] = LedProbe[7]
        /\ (PlatformInit \o LedProbe)[9] = LedProbe[8]
    BY <2>1, <2>2
  <2>4. QED
    BY <2>1, <2>3, <1>2, LedSteps
<1>5. /\ InitOf(d)[1].what = "platform" /\ InitOf(d)[2].what = "memory"
      /\ InitOf(d)[3].what = "pin" /\ InitOf(d)[4].what = "node"
      /\ InitOf(d)[5].what = "base" /\ InitOf(d)[6].what = "mapping"
      /\ InitOf(d)[7].what = "kobject" /\ InitOf(d)[8].what = "attr"
      /\ InitOf(d)[9].what = "bound"
  <2>1. /\ InitOf(d)[1].what = "platform" /\ InitOf(d)[2].what = "memory"
        /\ InitOf(d)[3].what = "pin" /\ InitOf(d)[4].what = "node"
        /\ InitOf(d)[5].what = "base" /\ InitOf(d)[6].what = "mapping"
        /\ InitOf(d)[7].what = "kobject" /\ InitOf(d)[9].what = "bound"
    BY <1>4 DEF Step
  <2>2. Tolerate("attr", "negative", <<"kobject_put">>).what = "attr"
    BY DEF Tolerate
  <2>3. InitOf(d)[8].what = "attr"
    BY <1>4, <2>2
  <2>4. QED
    BY <2>1, <2>3
<1>6. /\ Before(d, 6) = {"platform", "memory", "pin", "node", "base"}
      /\ Before(d, 7) = {"platform", "memory", "pin", "node", "base", "mapping"}
      /\ Before(d, 8) = {"platform", "memory", "pin", "node", "base", "mapping", "kobject"}
  BY <1>5, BeforeIs
<1>7. StepFact(d, 1)
  BY <1>4, PlatformFacts
<1>8. StepFact(d, 2) /\ StepFact(d, 3) /\ StepFact(d, 4) /\ StepFact(d, 5) /\ StepFact(d, 9)
  BY <1>4 DEF StepFact, Step, Noticed, ErrorOf, Entries
<1>9. StepFact(d, 6) /\ StepFact(d, 7)
  <2>1. "mapping" \notin Entries("attr") /\ "kobject" \notin Entries("attr")
    BY DEF Entries
  <2>2. "pin" \notin Outlives /\ "base" \notin Outlives
    BY DEF Outlives
  <2>3. StepFact(d, 6)
    BY <1>1, <1>4, <1>6, <2>1, <2>2, ProbingStep
  <2>4. StepFact(d, 7)
    BY <1>1, <1>4, <1>6, <2>1, <2>2, ProbingStep
  <2>5. QED
    BY <2>3, <2>4
<1>10. StepFact(d, 8)
  <2>1. Released(<<"kobject_put">>) = {"kobject", "attr"}
    BY DEF Released, Releases
  <2>2. /\ Released(<<"kobject_put">>) \cap Before(d, 8) \subseteq {"kobject"}
        /\ Needs(d, "attr") \subseteq Before(d, 8)
    BY <2>1, <1>1, <1>6
  <2>3. InitOf(d)[8] = Tolerate("attr", "negative", <<"kobject_put">>)
    BY <1>4
  <2>4. QED
    BY <2>2, <2>3, ToleratedStep
<1>11. Whats(d) = {"platform", "memory", "pin", "node", "base", "mapping", "kobject",
                   "attr", "bound"}
  BY <1>4, <1>5 DEF Whats
<1>12. ExitFacts(d)
  <2>1. Released(ExitAll(d)) = {"kobject", "attr", "mapping", "memory", "bound", "platform"}
    <3>1. Released(LedRemove \o PlatformExit) = Released(LedRemove) \cup Released(PlatformExit)
      <4>1. LedRemove \in Seq(Calls) /\ PlatformExit \in Seq(Calls)
        BY LedRemoves, PlatformExits
      <4>2. QED
        BY <4>1, ReleasedBoth
    <3>2. Released(LedRemove) \cup Released(PlatformExit) =
            {"kobject", "attr", "mapping", "memory", "bound", "platform"}
      BY LedRemoves, PlatformExits
    <3>3. QED
      BY <3>1, <3>2, <1>2
  <2>2. \A i \in DOMAIN ExitAll(d) : ExitAll(d)[i] = "kobject_put" => i = 1
    BY <1>2, LedRemoves, PlatformExits, Joined
  <2>3. ExitAll(d)[1] = "kobject_put" /\ ExitAll(d) # <<>>
    <3>1. (LedRemove \o PlatformExit)[1] = LedRemove[1]
      BY LedRemoves, PlatformExits, JoinedLeft
    <3>2. LedRemove \o PlatformExit # <<>>
      BY LedRemoves, PlatformExits
    <3>3. QED
      BY <3>1, <3>2, <1>2, LedRemoves
  <2>4. Forgets(d) \cap Entries("attr") = {} /\ "bound" \notin Forgets(d)
    BY <1>1 DEF Entries
  <2>5. (Whats(d) \cap Outlives) \ Released(ExitAll(d)) \subseteq Unreleased(d)
    BY <1>1, <1>11, <2>1 DEF Outlives
  <2>6. QED
    BY <1>2, <1>11, <2>1, <2>2, <2>3, <2>4, <2>5, LedRemoves, PlatformExits DEF ExitFacts
<1>13. UseFacts(d)
  BY <1>1, <1>11 DEF UseFacts
<1>14. Distinct(d)
  BY <1>4, <1>5 DEF Distinct
<1>15. QED
  BY <1>4, <1>7, <1>8, <1>9, <1>10, <1>12, <1>13, <1>14 DEF SafeRecipe, StepFacts, d

\* All twelve recipes keep what the life cycle needs.
LEMMA RecipesAreSafe == RecipeFacts
<1>1. SafeRecipe("file_operation") /\ SafeRecipe("fops") /\ SafeRecipe("ioctl")
  <2>1. \A d \in {"file_operation", "fops", "ioctl"} :
          /\ Recipes[d] = Recipe(FileOperationInit, FileOperationExit)
          /\ Forgets(d) = {"cdev"} /\ Needs(d, "file") = {"memory"} /\ Needs(d, "attr") = {}
    BY DEF Recipes, FopsInit, FopsExit, IoctlInit, IoctlExit, Forgets, Needs,
           FileOperationUses, FopsUses, IoctlUses, Uses
  <2>2. QED
    BY <2>1, BufferIsSafe
<1>2. Drivers = {"device_file", "file_operation", "fops", "ioctl", "procfs", "sysfs",
                 "static_waitqueue", "dynamic_waitqueue", "dev_numb", "major_minor",
                 "virtual_driver", "led_reconf"}
  BY DEF Drivers, Recipes
<1>3. QED
  BY <1>1, <1>2, DeviceFileIsSafe, ProcfsIsSafe, SysfsIsSafe, StaticWaitIsSafe,
     DynamicWaitIsSafe, NumberOnlyAreSafe, VirtualIsSafe, LedIsSafe DEF RecipeFacts

----------------------------------------------------------------------------
(* The steps of the life cycle keep the invariant.                         *)

\* Where users enter, and what may stay behind: no entry does unless a call
\* has failed.
LEMMA Entrances ==
  /\ Entries("attr") = {"procfile", "attr"} /\ Entries("file") = {"cdev", "major"}
  /\ Entries("attr") \subseteq Outlives /\ Outlives \subseteq Resources
  /\ "platform" \in Outlives /\ "bound" \notin Outlives
  /\ \A d \in Drivers, way \in Ways : Entries(way) \cap Unreleased(d) = {}
BY DEF Entries, Outlives, Resources, ErrorOf, Ways, Unreleased

\* What a driver has depends on nothing but what happens to itself.
Same(e) ==
  /\ phase'[e] = phase[e] /\ todo'[e] = todo[e]
  /\ has'[e] = has[e] /\ bad'[e] = bad[e]
  /\ e \in troubled' <=> e \in troubled
  /\ e \in aborted' <=> e \in aborted

\* A driver that a step leaves alone keeps its part of the invariant.
LEMMA OthersKept ==
  ASSUME NEW e \in Drivers, PhaseInv(e), Same(e)
  PROVE  PhaseInv(e)'
<1>1. Loading(e) => Loading(e)'
  BY DEF Same, Loading
<1>2. Live(e) => Live(e)'
  BY DEF Same, Live, Unbound
<1>3. Settles(e) => Settles(e)'
  BY DEF Same, Settles, Allowed
<1>4. Undoing(e) => Undoing(e)'
  BY <1>3 DEF Same, Undoing, Unbound
<1>5. Unloading(e) => Unloading(e)'
  BY <1>3 DEF Same, Unloading, KobjectFirst
<1>6. Supplied(e) => Supplied(e)'
  BY DEF Same, Supplied
<1>7. QED
  BY <1>1, <1>2, <1>4, <1>5, <1>6 DEF PhaseInv, Same

\* Loading begins with nothing registered.
LEMMA InsmodKeeps ==
  ASSUME LifeInv, NEW d \in machine, Insmod(d)
  PROVE  LifeInv'
<1>1. d \in Drivers /\ LifeTypes /\ InitOf(d) \in Seq(Steps)
  BY RecipesAreSafe DEF LifeInv, LifeTypes, RecipeFacts, SafeRecipe
<1>2. LifeTypes'
  BY <1>1 DEF Insmod, LifeTypes, Phases
<1>3. /\ phase'[d] = "loading" /\ todo'[d] = InitOf(d) /\ has'[d] = {} /\ bad'[d] = {}
      /\ troubled' = troubled /\ aborted' = aborted
  BY <1>1 DEF Insmod, LifeTypes
<1>4. PhaseInv(d)'
  <2>1. Before(d, 1) = {}
    BY DEF Before
  <2>2. InitOf(d) = SubSeq(InitOf(d), 1, Len(InitOf(d))) /\ 1 \in 1..(Len(InitOf(d)) + 1)
    BY <1>1, SubSeqFull
  <2>3. Loading(d)'
    BY <2>1, <2>2, <1>3 DEF Loading
  <2>4. QED
    BY <2>3, <1>3 DEF PhaseInv, Supplied
<1>5. \A e \in Drivers : PhaseInv(e)'
  <2>1. \A e \in Drivers \ {d} : Same(e)
    BY <1>1 DEF Insmod, LifeTypes, Same
  <2>2. QED
    BY <2>1, <1>4, OthersKept DEF LifeInv
<1>6. \A u \in Users : UserInv(u)'
  BY <1>1, <1>3 DEF Insmod, LifeTypes, LifeInv, UserInv, In
<1>7. HealthyIsSafe' /\ PinnedWhileUsed' /\ NothingLeft'
  BY DEF Insmod, LifeInv, HealthyIsSafe, PinnedWhileUsed, NothingLeft
<1>8. QED
  BY <1>2, <1>5, <1>6, <1>7 DEF LifeInv

\* A step of init that succeeds registers what its recipe says.
LEMMA SucceedKeeps ==
  ASSUME LifeInv, NEW d \in machine, Succeed(d)
  PROVE  LifeInv'
<1>1. /\ d \in Drivers /\ LifeTypes /\ phase[d] = "loading" /\ todo[d] # <<>>
      /\ InitOf(d) \in Seq(Steps) /\ StepFacts(d) /\ Loading(d)
  BY RecipesAreSafe DEF LifeInv, LifeTypes, RecipeFacts, SafeRecipe, Succeed, PhaseInv
<1>2. PICK k \in 1..(Len(InitOf(d)) + 1) :
        /\ todo[d] = SubSeq(InitOf(d), k, Len(InitOf(d)))
        /\ has[d] \subseteq Before(d, k)
        /\ "bound" \in Before(d, k) => "bound" \in has[d]
        /\ d \notin troubled => has[d] = Before(d, k)
  BY <1>1 DEF Loading
<1> DEFINE what == InitOf(d)[k].what
<1>3. /\ k \in DOMAIN InitOf(d) /\ Head(todo[d]) = InitOf(d)[k]
      /\ InitOf(d)[k] \in Steps /\ k + 1 \in 1..(Len(InitOf(d)) + 1)
      /\ Tail(todo[d]) = SubSeq(InitOf(d), k + 1, Len(InitOf(d)))
      /\ Before(d, k + 1) = Before(d, k) \cup {what}
  BY <1>1, <1>2, NextStep
<1>4. what \in Resources
  BY <1>3 DEF Steps
<1>5. /\ phase' = phase /\ todo'[d] = Tail(todo[d]) /\ has'[d] = has[d] \cup {what}
      /\ bad' = bad /\ left' = left /\ user' = user /\ oops' = oops
      /\ troubled' = troubled /\ aborted' = aborted /\ machine' = machine
      /\ has' = [has EXCEPT ![d] = @ \cup {what}] /\ todo' = [todo EXCEPT ![d] = Tail(@)]
  BY <1>1, <1>3 DEF Succeed, LifeTypes
<1>6. LifeTypes'
  BY <1>1, <1>4, <1>5 DEF LifeTypes
<1>7. PhaseInv(d)'
  <2>1. Loading(d)'
    BY <1>2, <1>3, <1>5 DEF Loading
  <2>2. Supplied(d)'
    <3>1. SUFFICES ASSUME d \notin troubled, has'[d] \cap Entries("attr") # {}
                   PROVE  Needs(d, "attr") \subseteq has[d]
      BY <1>5 DEF Supplied
    <3>2. CASE what \in Entries("attr")
      <4>1. Needs(d, "attr") \subseteq Before(d, k)
        BY <1>1, <1>3, <3>2 DEF StepFacts, StepFact
      <4>2. QED
        BY <4>1, <3>1, <1>2
    <3>3. CASE what \notin Entries("attr")
      <4>1. has[d] \cap Entries("attr") # {}
        BY <3>3, <3>1, <1>5
      <4>2. Supplied(d)
        BY <1>1 DEF LifeInv, PhaseInv
      <4>3. QED
        BY <4>1, <4>2, <3>1 DEF Supplied
    <3>4. QED
      BY <3>2, <3>3
  <2>3. QED
    BY <1>1, <1>5, <2>1, <2>2 DEF LifeInv, PhaseInv
<1>8. \A e \in Drivers : PhaseInv(e)'
  <2>1. \A e \in Drivers \ {d} : Same(e)
    BY <1>1, <1>5 DEF LifeTypes, Same
  <2>2. QED
    BY <2>1, <1>7, OthersKept DEF LifeInv
<1>9. \A u \in Users : UserInv(u)'
  BY <1>1, <1>5 DEF LifeTypes, LifeInv, UserInv, In
<1>10. HealthyIsSafe' /\ PinnedWhileUsed' /\ NothingLeft'
  BY <1>5 DEF LifeInv, HealthyIsSafe, PinnedWhileUsed, NothingLeft
<1>11. QED
  BY <1>6, <1>8, <1>9, <1>10 DEF LifeInv

\* Loading ends with everything registered.
LEMMA LoadedKeeps ==
  ASSUME LifeInv, NEW d \in machine, Loaded(d)
  PROVE  LifeInv'
<1>1. /\ d \in Drivers /\ LifeTypes /\ phase[d] = "loading" /\ todo[d] = <<>>
      /\ InitOf(d) \in Seq(Steps) /\ Loading(d)
  BY RecipesAreSafe DEF LifeInv, LifeTypes, RecipeFacts, SafeRecipe, Loaded, PhaseInv
<1>2. PICK k \in 1..(Len(InitOf(d)) + 1) :
        /\ todo[d] = SubSeq(InitOf(d), k, Len(InitOf(d)))
        /\ has[d] \subseteq Before(d, k)
        /\ "bound" \in Before(d, k) => "bound" \in has[d]
        /\ d \notin troubled => has[d] = Before(d, k)
  BY <1>1 DEF Loading
<1>3. Before(d, k) = Whats(d)
  <2>1. Len(InitOf(d)) \in Nat /\ DOMAIN InitOf(d) = 1..Len(InitOf(d))
    BY <1>1
  <2>2. k = Len(InitOf(d)) + 1
    <3>1. SUFFICES ASSUME k <= Len(InitOf(d)) PROVE FALSE
      BY <2>1
    <3>2. Len(SubSeq(InitOf(d), k, Len(InitOf(d)))) = Len(InitOf(d)) - k + 1
      BY <1>1, <2>1, <3>1
    <3>3. QED
      BY <3>1, <3>2, <2>1, <1>1, <1>2
  <2>3. QED
    BY <2>1, <2>2 DEF Before, Whats
<1>4. /\ phase' = [phase EXCEPT ![d] = "live"] /\ todo' = todo /\ has' = has
      /\ bad' = bad /\ left' = left /\ user' = user /\ oops' = oops
      /\ troubled' = troubled /\ aborted' = aborted /\ machine' = machine
  BY DEF Loaded
<1>5. LifeTypes' /\ phase'[d] = "live"
  BY <1>1, <1>4 DEF LifeTypes, Phases
<1>6. PhaseInv(d)'
  <2>1. Live(d)'
    BY <1>2, <1>3, <1>4 DEF Live
  <2>2. QED
    BY <2>1, <1>1, <1>4, <1>5 DEF LifeInv, PhaseInv, Supplied
<1>7. \A e \in Drivers : PhaseInv(e)'
  <2>1. \A e \in Drivers \ {d} : Same(e)
    BY <1>1, <1>4 DEF LifeTypes, Same
  <2>2. QED
    BY <2>1, <1>6, OthersKept DEF LifeInv
<1>8. \A u \in Users : UserInv(u)'
  BY <1>1, <1>4 DEF LifeTypes, LifeInv, UserInv, In
<1>9. HealthyIsSafe' /\ PinnedWhileUsed' /\ NothingLeft'
  BY <1>4 DEF LifeInv, HealthyIsSafe, PinnedWhileUsed, NothingLeft
<1>10. QED
  BY <1>5, <1>7, <1>8, <1>9 DEF LifeInv

\* rmmod begins the exit, which settles what a live driver has; nobody has
\* one of its files open.
LEMMA RmmodKeeps ==
  ASSUME LifeInv, NEW d \in machine, Rmmod(d)
  PROVE  LifeInv'
<1>1. /\ d \in Drivers /\ LifeTypes /\ phase[d] = "live"
      /\ ExitFacts(d) /\ Live(d) /\ \A u \in Users : ~In(u, d, "file")
  BY RecipesAreSafe DEF LifeInv, LifeTypes, RecipeFacts, SafeRecipe, Rmmod, PhaseInv
<1>2. /\ phase' = [phase EXCEPT ![d] = "unloading"] /\ todo' = [todo EXCEPT ![d] = ExitOf(d)]
      /\ has' = has /\ bad' = bad /\ left' = left /\ user' = user /\ oops' = oops
      /\ troubled' = troubled /\ aborted' = aborted /\ machine' = machine
  BY DEF Rmmod
<1>3. LifeTypes' /\ phase'[d] = "unloading" /\ todo'[d] = ExitOf(d)
  BY <1>1, <1>2 DEF LifeTypes, Phases
<1>4. ExitOf(d) \in Seq(Calls)
  BY <1>1 DEF ExitFacts, ExitOf
<1>5. "bound" \in has[d] \/ "bound" \notin Whats(d) => ExitOf(d) = ExitAll(d)
  BY <1>1 DEF ExitFacts, ExitOf, ExitAll
<1>6. (has[d] \cap Outlives) \ Released(ExitOf(d)) \subseteq Allowed(d)
  <2>1. CASE "bound" \in has[d] \/ "bound" \notin Whats(d)
    BY <2>1, <1>1, <1>5 DEF Live, ExitFacts, Allowed
  <2>2. CASE "bound" \notin has[d] /\ "bound" \in Whats(d)
    <3>1. /\ d \in troubled /\ has[d] \cap Outlives \subseteq {"platform"} \cup Forgets(d)
          /\ "platform" \in Released(Recipes[d].exit)
      BY <2>2, <1>1 DEF Live, Unbound, ExitFacts
    <3>2. ExitOf(d) = Recipes[d].exit
      BY <2>2, <1>1 DEF ExitOf, ExitFacts
    <3>3. QED
      BY <3>1, <3>2 DEF Allowed
  <2>3. QED
    BY <2>1, <2>2
<1>7. ASSUME d \notin troubled
      PROVE  has[d] = Whats(d) /\ ExitOf(d) = ExitAll(d)
  BY <1>1, <1>5, <1>7 DEF Live
<1>8. PhaseInv(d)'
  <2>1. Settles(d)'
    BY <1>2, <1>3, <1>6 DEF Settles, Allowed
  <2>2. d \notin troubled => KobjectFirst(d)'
    BY <1>1, <1>2, <1>3, <1>7 DEF KobjectFirst, ExitFacts
  <2>3. QED
    BY <2>1, <2>2, <1>1, <1>2, <1>3, <1>4 DEF LifeInv, PhaseInv, Supplied, Unloading
<1>9. \A e \in Drivers : PhaseInv(e)'
  <2>1. \A e \in Drivers \ {d} : Same(e)
    BY <1>1, <1>2 DEF LifeTypes, Same
  <2>2. QED
    BY <2>1, <1>8, OthersKept DEF LifeInv
<1>10. \A u \in Users : UserInv(u)'
  BY <1>1, <1>2 DEF LifeTypes, LifeInv, UserInv, In
<1>11. HealthyIsSafe' /\ PinnedWhileUsed' /\ NothingLeft'
  BY <1>2 DEF LifeInv, HealthyIsSafe, PinnedWhileUsed, NothingLeft
<1>12. QED
  BY <1>3, <1>9, <1>10, <1>11 DEF LifeInv

\* A module that dies keeps its users, and its own properties no longer bind.
LEMMA DeathKeeps ==
  ASSUME LifeInv, NEW d \in Drivers, NEW cause, Die(d, cause),
         d \in troubled' \/ (cause = "early" /\ LateObject(d)),
         UNCHANGED <<machine, todo, has, bad, left, user, aborted>>,
         troubled' \in {troubled, troubled \cup {d}}
  PROVE  LifeInv'
<1>1. LifeTypes /\ phase[d] \in Phases
  BY DEF LifeInv, LifeTypes
<1>2. /\ phase' = [phase EXCEPT ![d] = "dead"] /\ oops' = oops \cup {<<d, cause>>}
      /\ troubled \subseteq troubled'
  BY DEF Die
<1>3. LifeTypes' /\ phase'[d] = "dead"
  BY <1>1, <1>2 DEF LifeTypes, Phases
<1>4. PhaseInv(d)'
  BY <1>2, <1>3 DEF LifeInv, PhaseInv
<1>5. \A e \in Drivers : PhaseInv(e)'
  <2>1. \A e \in Drivers \ {d} : Same(e)
    BY <1>1, <1>2 DEF LifeTypes, Same
  <2>2. QED
    BY <2>1, <1>4, OthersKept DEF LifeInv
<1>6. \A u \in Users : UserInv(u)'
  BY <1>1, <1>2 DEF LifeTypes, LifeInv, UserInv, In
<1>7. HealthyIsSafe'
  <2>1. ASSUME NEW o \in oops'
        PROVE  \/ o[1] \in troubled' \/ (o[2] = "early" /\ LateObject(o[1]))
               \/ (o[2] = "thread" /\ "wake_thread" \in ExitCalls(o[1]))
    <3>1. CASE o \in oops
      BY <3>1, <1>2 DEF LifeInv, HealthyIsSafe
    <3>2. CASE o = <<d, cause>>
      BY <3>2
    <3>3. QED
      BY <3>1, <3>2, <1>2
  <2>2. QED
    BY <2>1 DEF HealthyIsSafe
<1>8. PinnedWhileUsed' /\ NothingLeft'
  BY <1>2 DEF LifeInv, PinnedWhileUsed, NothingLeft
<1>9. QED
  BY <1>3, <1>5, <1>6, <1>7, <1>8 DEF LifeInv

\* A step of init that fails ends the module, is undone, is tolerated or is
\* not noticed; what is undone is all but what Forgets names.
LEMMA FailKeeps ==
  ASSUME LifeInv, NEW d \in machine, Fail(d)
  PROVE  LifeInv'
<1>1. /\ d \in Drivers /\ LifeTypes /\ phase[d] = "loading" /\ todo[d] # <<>>
      /\ InitOf(d) \in Seq(Steps) /\ StepFacts(d) /\ Loading(d)
      /\ PhaseInv(d) /\ ExitFacts(d)
  BY RecipesAreSafe DEF LifeInv, LifeTypes, RecipeFacts, SafeRecipe, Fail, PhaseInv
<1>2. PICK k \in 1..(Len(InitOf(d)) + 1) :
        /\ todo[d] = SubSeq(InitOf(d), k, Len(InitOf(d)))
        /\ has[d] \subseteq Before(d, k)
        /\ "bound" \in Before(d, k) => "bound" \in has[d]
        /\ d \notin troubled => has[d] = Before(d, k)
  BY <1>1 DEF Loading
<1> DEFINE Used(s) ==
             s.test = "used" /\ Die(d, "unchecked") /\ UNCHANGED <<todo, has, bad, aborted>>
           Aborts(s) ==
             /\ Noticed(s) /\ s.next = "abort"
             /\ phase' = [phase EXCEPT ![d] = "undoing"]
             /\ todo' = [todo EXCEPT ![d] = s.undo]
             /\ aborted' = aborted \cup {d}
             /\ UNCHANGED <<has, bad, oops>>
           GoesOn(s) ==
             /\ Noticed(s) /\ s.next = "go on"
             /\ has' = [has EXCEPT ![d] =
                          @ \ UNION {Releases[s.undo[i]] : i \in DOMAIN s.undo}]
             /\ todo' = [todo EXCEPT ![d] = Tail(@)]
             /\ UNCHANGED <<phase, bad, oops, aborted>>
           Misses(s) ==
             /\ s.test # "used" /\ ~Noticed(s)
             /\ bad' = [bad EXCEPT ![d] = @ \cup {s.what}]
             /\ todo' = [todo EXCEPT ![d] = Tail(@)]
             /\ UNCHANGED <<phase, has, oops, aborted>>
<1>3. /\ k \in DOMAIN InitOf(d) /\ Head(todo[d]) = InitOf(d)[k]
      /\ InitOf(d)[k] \in Steps /\ k + 1 \in 1..(Len(InitOf(d)) + 1)
      /\ Tail(todo[d]) = SubSeq(InitOf(d), k + 1, Len(InitOf(d)))
      /\ Before(d, k + 1) = Before(d, k) \cup {InitOf(d)[k].what}
  BY <1>1, <1>2, NextStep
<1>4. PICK step : /\ step = Head(todo[d])
                  /\ Used(step) \/ Aborts(step) \/ GoesOn(step) \/ Misses(step)
  BY DEF Fail
<1>5. step = InitOf(d)[k] /\ step \in Steps
  BY <1>3, <1>4
<1>6. step.what \in Resources /\ step.undo \in Seq(Calls) /\ step.what # "bound"
  <2>1. step.what \in Resources /\ step.undo \in Seq(Calls)
    BY <1>5 DEF Steps
  <2>2. ErrorOf[step.what] # "never"
    BY <1>4 DEF Fail
  <2>3. QED
    BY <2>1, <2>2 DEF ErrorOf
<1>7. /\ left' = left /\ user' = user /\ troubled' = troubled \cup {d}
      /\ machine' = machine
  BY DEF Fail
<1>8. Before(d, k) \subseteq Whats(d)
  <2>1. 1..(k - 1) \subseteq DOMAIN InitOf(d)
    BY <1>1, <1>2, <1>3
  <2>2. QED
    BY <2>1 DEF Before, Whats
<1>9. CASE Used(step)
  BY <1>1, <1>7, <1>9, DeathKeeps
<1>10. CASE Aborts(step)
  <2>1. LifeTypes' /\ phase'[d] = "undoing" /\ todo'[d] = step.undo
    BY <1>1, <1>7, <1>10 DEF LifeTypes, Phases
  <2>2. Undoing(d)'
    <3>1. IF "platform" \in Before(d, k)
          THEN Before(d, k) \cap Outlives \subseteq {"platform"} \cup Forgets(d)
          ELSE (Before(d, k) \cap Outlives) \ Released(step.undo) \subseteq Forgets(d)
      BY <1>1, <1>3, <1>5, <1>10 DEF StepFacts, StepFact
    <3>2. "platform" \in has[d] => Unbound(d)'
      BY <3>1, <1>2, <1>7, <1>10 DEF Unbound
    <3>3. "platform" \notin has[d] => Settles(d)'
      BY <3>1, <1>2, <1>7, <1>10, <2>1 DEF Settles, Allowed
    <3>4. QED
      BY <3>2, <3>3, <1>2, <1>6, <1>8, <1>10, <2>1 DEF Undoing
  <2>3. PhaseInv(d)'
    BY <2>1, <2>2, <1>7 DEF PhaseInv, Supplied
  <2>4. \A e \in Drivers : PhaseInv(e)'
    <3>1. \A e \in Drivers \ {d} : Same(e)
      BY <1>1, <1>7, <1>10 DEF LifeTypes, Same
    <3>2. QED
      BY <3>1, <2>3, OthersKept DEF LifeInv
  <2>5. \A u \in Users : UserInv(u)'
    BY <1>1, <1>7, <1>10 DEF LifeTypes, LifeInv, UserInv, In
  <2>6. HealthyIsSafe' /\ PinnedWhileUsed' /\ NothingLeft'
    BY <1>7, <1>10 DEF LifeInv, HealthyIsSafe, PinnedWhileUsed, NothingLeft
  <2>7. QED
    BY <2>1, <2>4, <2>5, <2>6 DEF LifeInv
<1>11. ASSUME /\ todo' = [todo EXCEPT ![d] = Tail(@)]
             /\ has'[d] \subseteq has[d] /\ has[d] \ has'[d] \subseteq {"kobject"}
             /\ has' = [has EXCEPT ![d] = has'[d]]
             /\ bad'[d] \subseteq Resources /\ bad' = [bad EXCEPT ![d] = bad'[d]]
             /\ UNCHANGED <<phase, oops, aborted>>
      PROVE  LifeInv'
  <2>1. LifeTypes' /\ todo'[d] = Tail(todo[d])
    BY <1>1, <1>7, <1>11 DEF LifeTypes
  <2>2. Loading(d)'
    <3>1. has'[d] \subseteq Before(d, k + 1) /\ d \in troubled'
      BY <1>2, <1>3, <1>7, <1>11
    <3>2. "bound" \in Before(d, k + 1) => "bound" \in has'[d]
      BY <1>2, <1>3, <1>5, <1>6, <1>11
    <3>3. todo'[d] = SubSeq(InitOf(d), k + 1, Len(InitOf(d)))
      BY <1>2, <1>3, <2>1
    <3>4. QED
      BY <3>1, <3>2, <3>3, <1>3 DEF Loading
  <2>3. PhaseInv(d)'
    BY <1>1, <2>2, <1>7, <1>11 DEF PhaseInv, Supplied
  <2>4. \A e \in Drivers : PhaseInv(e)'
    <3>1. \A e \in Drivers \ {d} : Same(e)
      BY <1>1, <1>7, <1>11 DEF LifeTypes, Same
    <3>2. QED
      BY <3>1, <2>3, OthersKept DEF LifeInv
  <2>5. \A u \in Users : UserInv(u)'
    <3>1. \A e \in Drivers : Entries("attr") \cap has[e] # {} => Entries("attr") \cap has'[e] # {}
      BY <1>1, <1>11, Entrances DEF LifeTypes
    <3>2. QED
      BY <3>1, <1>7, <1>11 DEF LifeInv, UserInv, In
  <2>6. HealthyIsSafe' /\ PinnedWhileUsed' /\ NothingLeft'
    BY <1>7, <1>11 DEF LifeInv, HealthyIsSafe, PinnedWhileUsed, NothingLeft
  <2>7. QED
    BY <2>1, <2>4, <2>5, <2>6 DEF LifeInv
<1>12. CASE GoesOn(step)
  <2>1. Released(step.undo) \cap Before(d, k) \subseteq {"kobject"}
    BY <1>1, <1>3, <1>5, <1>12 DEF StepFacts, StepFact
  <2>2. has'[d] = has[d] \ Released(step.undo) /\ bad[d] \subseteq Resources
    BY <1>1, <1>12 DEF LifeTypes, Released
  <2>3. bad = [bad EXCEPT ![d] = bad[d]]
    BY <1>1 DEF LifeTypes
  <2>4. QED
    BY <2>1, <2>2, <2>3, <1>2, <1>11, <1>12
<1>13. CASE Misses(step)
  <2>1. has = [has EXCEPT ![d] = has[d]]
    BY <1>1 DEF LifeTypes
  <2>2. bad'[d] = bad[d] \cup {step.what} /\ bad'[d] \subseteq Resources
    BY <1>1, <1>6, <1>13 DEF LifeTypes
  <2>3. QED
    BY <2>1, <2>2, <1>11, <1>13
<1>14. QED
  BY <1>4, <1>9, <1>10, <1>12, <1>13

\* A call of exit or of an undo sequence takes away what it releases; a
\* healthy module meets no bad release.
LEMMA ReleaseKeeps ==
  ASSUME LifeInv, NEW d \in machine, Release(d)
  PROVE  LifeInv'
<1>1. /\ d \in Drivers /\ LifeTypes /\ PhaseInv(d) /\ Releasing(d)
      /\ UseFacts(d) /\ ExitFacts(d) /\ aborted \subseteq troubled
  BY RecipesAreSafe DEF LifeInv, LifeTypes, RecipeFacts, SafeRecipe, Release
<1>2. /\ phase[d] = "undoing" => Undoing(d)
      /\ phase[d] = "unloading" => Unloading(d)
      /\ phase[d] \in {"undoing", "unloading"} /\ todo[d] # <<>>
  BY <1>1 DEF PhaseInv, Releasing
<1>3. (todo[d] \in Seq(Calls) /\ has[d] \subseteq Whats(d)) \/ d \in troubled
  BY <1>2 DEF Undoing, Unloading, KobjectFirst
<1>4. todo[d] \in Seq(Calls) /\ phase[d] # "dead" /\ phase[d] # "out"
  BY <1>2 DEF Undoing, Unloading
<1>5. PICK call : call = Head(todo[d])
  OBVIOUS
<1>6. /\ call = todo[d][1] /\ call \in Calls /\ Tail(todo[d]) \in Seq(Calls)
      /\ 1 \in DOMAIN todo[d]
      /\ \A i \in DOMAIN Tail(todo[d]) :
           i \in Nat /\ i + 1 \in DOMAIN todo[d] /\ Tail(todo[d])[i] = todo[d][i + 1]
      /\ Released(todo[d]) \subseteq Releases[call] \cup Released(Tail(todo[d]))
  BY <1>2, <1>4, <1>5, FirstCall
<1>7. /\ bad' = bad /\ left' = left /\ user' = user /\ troubled' = troubled
      /\ aborted' = aborted /\ machine' = machine
  BY DEF Release
<1>8. ASSUME d \notin troubled
      PROVE  /\ ~BadRelease(d) /\ phase[d] = "unloading" /\ KobjectFirst(d)
             /\ has[d] \cap {"kobject", "attr"} # {} => call = "kobject_put"
  <2>1. bad[d] = {} /\ phase[d] = "unloading" /\ KobjectFirst(d)
    BY <1>1, <1>2, <1>8 DEF PhaseInv, Undoing, Unloading
  <2>2. call = "kobject_put" => "kobject" \in has[d]
    BY <2>1, <1>6 DEF KobjectFirst
  <2>3. QED
    BY <2>1, <2>2, <1>5, <1>6 DEF BadRelease, KobjectFirst
<1>9. CASE BadRelease(d) /\ Die(d, Cause(call)) /\ UNCHANGED <<todo, has>>
  BY <1>1, <1>7, <1>8, <1>9, DeathKeeps
<1>10. CASE /\ has' = [has EXCEPT ![d] = @ \ Releases[call]]
            /\ todo' = [todo EXCEPT ![d] = Tail(@)]
            /\ UNCHANGED <<phase, oops>>
  <2>1. /\ LifeTypes' /\ has'[d] = has[d] \ Releases[call] /\ todo'[d] = Tail(todo[d])
        /\ has'[d] \subseteq has[d]
    BY <1>1, <1>7, <1>10 DEF LifeTypes
  <2>2. Settles(d) => Settles(d)'
    BY <2>1, <1>6, <1>7 DEF Settles, Allowed
  <2>3. Undoing(d) => Undoing(d)'
    <3>1. SUFFICES ASSUME Undoing(d) PROVE Undoing(d)'
      OBVIOUS
    <3>2. "platform" \in has'[d] => Unbound(d)'
      BY <3>1, <2>1, <1>7 DEF Undoing, Unbound
    <3>3. "platform" \in has[d] /\ "platform" \notin has'[d] => Settles(d)'
      BY <3>1, <2>1, <1>7 DEF Undoing, Unbound, Settles, Allowed
    <3>4. QED
      BY <3>1, <3>2, <3>3, <2>1, <2>2, <1>6, <1>7 DEF Undoing
  <2>4. KobjectFirst(d) /\ d \notin troubled =>
          KobjectFirst(d)' /\ has'[d] \cap {"kobject", "attr"} = {}
    <3>1. SUFFICES ASSUME KobjectFirst(d), d \notin troubled
                   PROVE  KobjectFirst(d)' /\ has'[d] \cap {"kobject", "attr"} = {}
      OBVIOUS
    <3>2. has'[d] \cap {"kobject", "attr"} = {}
      <4>1. Releases["kobject_put"] = {"kobject", "attr"}
        BY DEF Releases
      <4>2. QED
        BY <4>1, <3>1, <2>1, <1>8
    <3>3. ASSUME NEW i \in DOMAIN Tail(todo[d]) PROVE Tail(todo[d])[i] # "kobject_put"
      <4>1. /\ i \in Nat /\ i + 1 \in DOMAIN todo[d]
            /\ Tail(todo[d])[i] = todo[d][i + 1] /\ DOMAIN Tail(todo[d]) = 1..Len(Tail(todo[d]))
        BY <1>6
      <4>2. i + 1 # 1
        BY <4>1
      <4>3. QED
        BY <4>1, <4>2, <3>1 DEF KobjectFirst
    <3>4. QED
      BY <3>1, <3>2, <3>3, <2>1 DEF KobjectFirst
  <2>5. Unloading(d) => Unloading(d)'
    BY <2>1, <2>2, <2>4, <1>6, <1>7 DEF Unloading
  <2>6. Supplied(d)'
    <3>1. SUFFICES ASSUME d \notin troubled, has'[d] \cap Entries("attr") # {}
                   PROVE  Needs(d, "attr") = {}
      BY <1>7 DEF Supplied
    <3>2. "procfile" \in has'[d]
      BY <3>1, <1>8, <2>4, Entrances
    <3>3. "procfile" \in Whats(d)
      BY <3>1, <3>2, <2>1, <1>8 DEF KobjectFirst
    <3>4. QED
      BY <3>3, <1>1 DEF UseFacts
  <2>7. PhaseInv(d)'
    BY <2>3, <2>5, <2>6, <1>1, <1>2, <1>7, <1>10 DEF PhaseInv
  <2>8. \A e \in Drivers : PhaseInv(e)'
    <3>1. \A e \in Drivers \ {d} : Same(e)
      BY <1>1, <1>7, <1>10 DEF LifeTypes, Same
    <3>2. QED
      BY <3>1, <2>7, OthersKept DEF LifeInv
  <2>9. \A u \in Users : UserInv(u)'
    <3>1. ASSUME NEW u \in Users, In(u, d, "attr")
          PROVE  Entries("attr") \cap has'[d] # {}
      <4>1. Releases[call] \cap Entries("attr") = {}
        BY <3>1, <1>1, <1>5 DEF Release, Drains
      <4>2. Entries("attr") \cap has[d] # {}
        BY <3>1, <1>1, <1>4 DEF LifeInv, UserInv
      <4>3. QED
        BY <4>1, <4>2, <2>1
    <3>2. \A u \in Users, e \in Drivers, way \in Ways : In(u, e, way)' <=> In(u, e, way)
      BY <1>7 DEF In
    <3>3. \A e \in Drivers \ {d} : has'[e] = has[e]
      BY <1>1, <1>10 DEF LifeTypes
    <3>4. QED
      BY <3>1, <3>2, <3>3, <1>10 DEF LifeInv, UserInv, Ways
  <2>10. HealthyIsSafe' /\ PinnedWhileUsed' /\ NothingLeft'
    BY <1>7, <1>10 DEF LifeInv, HealthyIsSafe, PinnedWhileUsed, NothingLeft
  <2>11. QED
    BY <2>1, <2>8, <2>9, <2>10 DEF LifeInv
<1>11. QED
  BY <1>5, <1>9, <1>10 DEF Release

\* The module goes when its sequence has come to the end: nobody holds it,
\* unless it goes for a failed init, and what may stay stays.
LEMMA FinishKeeps ==
  ASSUME LifeInv, NEW d \in machine, Finish(d)
  PROVE  LifeInv'
<1>1. /\ d \in Drivers /\ LifeTypes /\ PhaseInv(d) /\ ExitFacts(d)
      /\ phase[d] \in {"undoing", "unloading"} /\ todo[d] = <<>>
      /\ aborted \subseteq troubled
  BY RecipesAreSafe DEF LifeInv, LifeTypes, RecipeFacts, SafeRecipe, Finish
<1>2. /\ phase[d] = "undoing" => Undoing(d)
      /\ phase[d] = "unloading" => Unloading(d)
  BY <1>1 DEF PhaseInv
<1>3. /\ todo' = todo /\ oops' = oops /\ troubled' = troubled
      /\ aborted' = aborted /\ machine' = machine
  BY DEF Finish
<1>4. CASE StaysLoaded(d)
  <2>1. /\ phase' = [phase EXCEPT ![d] = "live"] /\ has' = has /\ bad' = bad
        /\ left' = left /\ user' = user
    BY <1>4 DEF Finish
  <2>2. LifeTypes' /\ phase'[d] = "live"
    BY <1>1, <1>3, <2>1 DEF LifeTypes, Phases
  <2>3. has[d] \subseteq Whats(d) /\ Unbound(d)
    BY <1>2, <1>4 DEF StaysLoaded, Undoing
  <2>4. Live(d)'
    BY <2>1, <2>3, <1>3 DEF Live, Unbound
  <2>5. PhaseInv(d)'
    BY <2>1, <2>2, <2>3, <2>4, <1>3 DEF PhaseInv, Supplied, Unbound
  <2>6. \A e \in Drivers : PhaseInv(e)'
    <3>1. \A e \in Drivers \ {d} : Same(e)
      BY <1>1, <1>3, <2>1 DEF LifeTypes, Same
    <3>2. QED
      BY <3>1, <2>5, OthersKept DEF LifeInv
  <2>7. \A u \in Users : UserInv(u)'
    BY <1>1, <1>3, <2>1 DEF LifeTypes, LifeInv, UserInv, In
  <2>8. HealthyIsSafe' /\ PinnedWhileUsed' /\ NothingLeft'
    BY <1>3, <2>1 DEF LifeInv, HealthyIsSafe, PinnedWhileUsed, NothingLeft
  <2>9. QED
    BY <2>2, <2>6, <2>7, <2>8 DEF LifeInv
<1>5. CASE ~StaysLoaded(d)
  <2>1. /\ phase' = [phase EXCEPT ![d] = "out"] /\ has' = [has EXCEPT ![d] = {}]
        /\ bad' = [bad EXCEPT ![d] = {}]
        /\ left' = [left EXCEPT ![d] = @ \cup (has[d] \cap Outlives)]
        /\ user' = [u \in Users |->
                      IF user[u] # Idle /\ user[u].drv = d
                      THEN [user[u] EXCEPT !.freed = TRUE] ELSE user[u]]
    BY <1>5 DEF Finish
  <2>2. Settles(d)
    BY <1>1, <1>2, <1>5 DEF StaysLoaded, Undoing, Unloading
  <2>3. has[d] \cap Outlives \subseteq Allowed(d)
    BY <2>2, <1>1, NoCall DEF Settles
  <2>4. \A u \in Users :
          \/ user'[u] = user[u]
          \/ /\ user[u] # Idle /\ user[u].drv = d /\ user[u] \in Inside
             /\ user'[u] \in Inside /\ user'[u].drv = d /\ user'[u].freed
    BY <2>1, <1>1 DEF LifeTypes, Inside
  <2>5. LifeTypes'
    <3>1. user' \in [Users -> {Idle} \cup Inside]
      BY <2>1, <2>4, <1>1 DEF LifeTypes
    <3>2. has[d] \subseteq Resources /\ left[d] \subseteq Resources
      BY <1>1 DEF LifeTypes
    <3>3. QED
      BY <3>1, <3>2, <2>1, <1>1, <1>3 DEF LifeTypes, Phases
  <2>6. phase'[d] = "out" /\ has'[d] = {} /\ bad'[d] = {}
    BY <2>1, <1>1 DEF LifeTypes
  <2>7. PhaseInv(d)'
    BY <2>6 DEF PhaseInv, Supplied
  <2>8. \A e \in Drivers \ {d} : Same(e) /\ left'[e] = left[e]
    BY <1>1, <1>3, <2>1 DEF LifeTypes, Same
  <2>9. \A e \in Drivers : PhaseInv(e)'
    BY <2>7, <2>8, OthersKept DEF LifeInv
  <2>10. \A u \in Users, e \in Drivers, way \in Ways :
           In(u, e, way)' => e # d /\ In(u, e, way)
    <3>1. SUFFICES ASSUME NEW u \in Users, NEW e \in Drivers, NEW way \in Ways, In(u, e, way)'
                   PROVE  e # d /\ In(u, e, way)
      OBVIOUS
    <3>2. user'[u] # Idle /\ user'[u].drv = e /\ user'[u].way = way /\ ~user'[u].freed
      BY <3>1 DEF In
    <3>3. user'[u] = user[u]
      BY <3>2, <2>4
    <3>4. ~(user[u] # Idle /\ user[u].drv = d)
      <4>1. SUFFICES ASSUME user[u] # Idle, user[u].drv = d PROVE FALSE
        OBVIOUS
      <4>2. user[u] \in Inside /\ user'[u] = [user[u] EXCEPT !.freed = TRUE]
        BY <4>1, <2>1, <1>1 DEF LifeTypes
      <4>3. user'[u].freed
        BY <4>2 DEF Inside
      <4>4. QED
        BY <4>3, <3>2
    <3>5. QED
      BY <3>2, <3>3, <3>4 DEF In
  <2>11. \A u \in Users : UserInv(u)'
    BY <2>8, <2>10 DEF LifeInv, UserInv, Same, Ways
  <2>12. PinnedWhileUsed'
    <3>1. SUFFICES ASSUME NEW u \in Users, user'[u] # Idle, user'[u].freed
                   PROVE  user'[u].drv \in aborted
      BY <1>3 DEF PinnedWhileUsed
    <3>2. CASE user'[u] = user[u]
      BY <3>1, <3>2 DEF LifeInv, PinnedWhileUsed
    <3>3. CASE user[u] # Idle /\ user[u].drv = d /\ user[u] \in Inside /\ user'[u].drv = d
      <4>1. CASE user[u].freed
        BY <4>1, <3>3 DEF LifeInv, PinnedWhileUsed
      <4>2. CASE phase[d] = "undoing"
        BY <4>2, <3>3, <1>2 DEF Undoing
      <4>3. CASE ~user[u].freed /\ phase[d] = "unloading"
        <5>1. PICK way \in Ways : user[u].way = way
          BY <3>3 DEF Inside
        <5>2. In(u, d, way)
          BY <5>1, <4>3, <3>3 DEF In
        <5>3. way = "attr"
          BY <5>2, <4>3, <1>1 DEF LifeInv, UserInv, Ways
        <5>4. Entries("attr") \cap has[d] # {}
          BY <5>2, <5>3, <4>3, <1>1 DEF LifeInv, UserInv
        <5>5. PICK entry \in Entries("attr") : entry \in Allowed(d)
          BY <5>4, <2>3, Entrances
        <5>6. entry \notin Unreleased(d) /\ entry \notin Forgets(d)
          BY <5>5, <1>1, Entrances DEF ExitFacts, Ways
        <5>7. QED
          BY <5>5, <5>6 DEF Allowed
      <4>4. QED
        BY <4>1, <4>2, <4>3, <1>1
    <3>4. QED
      BY <3>2, <3>3, <2>4
  <2>13. NothingLeft'
    <3>1. left'[d] = left[d] \cup (has[d] \cap Outlives)
      BY <2>1, <1>1 DEF LifeTypes
    <3>2. \A e \in Drivers : left[e] \subseteq Allowed(e)
      BY DEF LifeInv, NothingLeft, Allowed
    <3>3. \A e \in Drivers : left'[e] \subseteq Allowed(e)
      BY <3>1, <3>2, <2>3, <2>8
    <3>4. QED
      BY <3>3, <1>3 DEF NothingLeft, Allowed
  <2>14. HealthyIsSafe'
    BY <1>3 DEF LifeInv, HealthyIsSafe
  <2>15. QED
    BY <2>5, <2>9, <2>11, <2>12, <2>13, <2>14 DEF LifeInv
<1>6. QED
  BY <1>4, <1>5

\* A process enters only where there is an entry, and not a file of a module
\* that is going, nor an entry that is being removed.
LEMMA EnterKeeps ==
  ASSUME LifeInv, NEW u \in Users, NEW d \in machine, NEW way \in Ways,
         Enter(u, d, way)
  PROVE  LifeInv'
<1>1. /\ d \in Drivers /\ LifeTypes /\ PhaseInv(d)
      /\ user[u] = Idle /\ Entries(way) \cap has[d] # {}
      /\ way = "file" => phase[d] # "unloading"
  BY DEF LifeInv, LifeTypes, Enter
<1>2. /\ phase' = phase /\ todo' = todo /\ has' = has /\ bad' = bad /\ left' = left
      /\ oops' = oops /\ troubled' = troubled /\ aborted' = aborted /\ machine' = machine
      /\ user' = [user EXCEPT ![u] = [drv |-> d, way |-> way, freed |-> FALSE]]
  BY DEF Enter
<1>3. LifeTypes'
  BY <1>1, <1>2 DEF LifeTypes, Inside
<1>4. /\ user'[u] = [drv |-> d, way |-> way, freed |-> FALSE]
      /\ \A v \in Users \ {u} : user'[v] = user[v]
  BY <1>1, <1>2 DEF LifeTypes
<1>5. \A e \in Drivers : PhaseInv(e)'
  BY <1>2, OthersKept DEF LifeInv, Same
<1>6. \A v \in Users : UserInv(v)'
  <2>1. ASSUME NEW v \in Users \ {u} PROVE UserInv(v)'
    BY <1>2, <1>4 DEF LifeInv, UserInv, In
  <2>2. UserInv(u)'
    <3>1. phase[d] # "out"
      BY <1>1 DEF PhaseInv
    <3>2. \A e \in Drivers, w \in Ways : In(u, e, w)' => e = d /\ w = way
      BY <1>4 DEF In
    <3>3. QED
      BY <3>1, <3>2, <1>1, <1>2 DEF UserInv, Ways
  <2>3. QED
    BY <2>1, <2>2
<1>7. PinnedWhileUsed'
  BY <1>2, <1>4 DEF LifeInv, PinnedWhileUsed
<1>8. HealthyIsSafe' /\ NothingLeft'
  BY <1>2 DEF LifeInv, HealthyIsSafe, NothingLeft
<1>9. QED
  BY <1>3, <1>5, <1>6, <1>7, <1>8 DEF LifeInv

\* What only adds an oops of a driver in trouble, or of a thread that its
\* driver's exit did not wait for.
LEMMA OopsKeeps ==
  ASSUME LifeInv, NEW d, NEW cause, oops' = oops \cup {<<d, cause>>},
         \/ d \in troubled
         \/ cause = "thread" /\ "wake_thread" \in ExitCalls(d),
         UNCHANGED <<machine, phase, todo, has, bad, left, troubled, aborted>>
  PROVE  HealthyIsSafe' /\ NothingLeft' /\ \A e \in Drivers : PhaseInv(e)'
<1>1. HealthyIsSafe'
  <2>1. ASSUME NEW o \in oops'
        PROVE  \/ o[1] \in troubled' \/ (o[2] = "early" /\ LateObject(o[1]))
               \/ (o[2] = "thread" /\ "wake_thread" \in ExitCalls(o[1]))
    <3>1. CASE o \in oops
      BY <3>1 DEF LifeInv, HealthyIsSafe
    <3>2. CASE o = <<d, cause>>
      BY <3>2
    <3>3. QED
      BY <3>1, <3>2
  <2>2. QED
    BY <2>1 DEF HealthyIsSafe
<1>2. NothingLeft'
  BY DEF LifeInv, NothingLeft
<1>3. QED
  BY <1>1, <1>2, OthersKept DEF LifeInv, Same

\* An entry point outlives its module only after a failed init.
LEMMA EnterFreedKeeps ==
  ASSUME LifeInv, NEW u \in Users, NEW d \in machine, NEW way \in Ways,
         EnterFreed(u, d, way)
  PROVE  LifeInv'
<1>1. d \in Drivers /\ LifeTypes /\ Entries(way) \cap left[d] # {}
  BY DEF LifeInv, LifeTypes, EnterFreed
<1>2. d \in troubled
  <2>1. left[d] \subseteq Allowed(d)
    BY <1>1 DEF LifeInv, NothingLeft, Allowed
  <2>2. QED
    BY <1>1, <2>1, Entrances DEF Allowed
<1>3. HealthyIsSafe' /\ NothingLeft' /\ \A e \in Drivers : PhaseInv(e)'
  BY <1>2, OopsKeeps DEF EnterFreed
<1>4. LifeTypes' /\ PinnedWhileUsed' /\ \A v \in Users : UserInv(v)'
  BY DEF EnterFreed, LifeInv, LifeTypes, PinnedWhileUsed, UserInv, In
<1>5. QED
  BY <1>3, <1>4 DEF LifeInv

\* A thread that has been woken returns; its driver needs it no more.
LEMMA ThreadEndsKeeps ==
  ASSUME LifeInv, NEW d \in machine, ThreadEnds(d)
  PROVE  LifeInv'
<1>1. /\ d \in Drivers /\ LifeTypes /\ PhaseInv(d) /\ UseFacts(d)
      /\ phase[d] = "unloading" /\ Unloading(d)
  BY RecipesAreSafe DEF LifeInv, LifeTypes, RecipeFacts, SafeRecipe, ThreadEnds, PhaseInv
<1>2. /\ has' = [has EXCEPT ![d] = @ \ {"thread"}] /\ phase' = phase /\ todo' = todo
      /\ bad' = bad /\ left' = left /\ user' = user /\ oops' = oops
      /\ troubled' = troubled /\ aborted' = aborted /\ machine' = machine
  BY DEF ThreadEnds
<1>3. LifeTypes' /\ has'[d] = has[d] \ {"thread"}
  BY <1>1, <1>2 DEF LifeTypes
<1>4. PhaseInv(d)'
  <2>1. Settles(d)'
    BY <1>1, <1>2, <1>3 DEF Unloading, Settles, Allowed
  <2>2. KobjectFirst(d) => KobjectFirst(d)'
    BY <1>2, <1>3 DEF KobjectFirst
  <2>3. Unloading(d)'
    BY <2>1, <2>2, <1>1, <1>2 DEF Unloading
  <2>4. Supplied(d) => Supplied(d)'
    BY <1>1, <1>2, <1>3 DEF Supplied, UseFacts
  <2>5. QED
    BY <2>3, <2>4, <1>1, <1>2 DEF PhaseInv
<1>5. \A e \in Drivers : PhaseInv(e)'
  <2>1. \A e \in Drivers \ {d} : Same(e)
    BY <1>1, <1>2 DEF LifeTypes, Same
  <2>2. QED
    BY <2>1, <1>4, OthersKept DEF LifeInv
<1>6. \A u \in Users : UserInv(u)'
  <2>1. \A e \in Drivers : Entries("attr") \cap has[e] # {} => Entries("attr") \cap has'[e] # {}
    BY <1>1, <1>2, Entrances DEF LifeTypes
  <2>2. QED
    BY <2>1, <1>2 DEF LifeInv, UserInv, In
<1>7. HealthyIsSafe' /\ PinnedWhileUsed' /\ NothingLeft'
  BY <1>2 DEF LifeInv, HealthyIsSafe, PinnedWhileUsed, NothingLeft
<1>8. QED
  BY <1>3, <1>5, <1>6, <1>7 DEF LifeInv

\* A thread outlives its module only if exit wakes it and goes.
LEMMA LeftThreadKeeps ==
  ASSUME LifeInv, NEW d \in machine, LeftThread(d)
  PROVE  LifeInv'
<1>1. d \in Drivers /\ LifeTypes /\ "thread" \in left[d]
  BY DEF LifeInv, LifeTypes, LeftThread
<1>2. d \in troubled \/ "wake_thread" \in ExitCalls(d)
  <2>1. left[d] \subseteq Allowed(d)
    BY <1>1 DEF LifeInv, NothingLeft, Allowed
  <2>2. QED
    BY <1>1, <2>1 DEF Allowed, Unreleased
<1>3. HealthyIsSafe' /\ NothingLeft' /\ \A e \in Drivers : PhaseInv(e)'
  BY <1>2, OopsKeeps DEF LeftThread
<1>4. LifeTypes' /\ PinnedWhileUsed' /\ \A v \in Users : UserInv(v)'
  BY DEF LeftThread, LifeInv, LifeTypes, PinnedWhileUsed, UserInv, In
<1>5. QED
  BY <1>3, <1>4 DEF LifeInv

\* A handler of a healthy module misses nothing, unless it is one of a file
\* that is there before its objects.
LEMMA UseKeeps ==
  ASSUME LifeInv, NEW u \in Users, Use(u)
  PROVE  LifeInv'
<1>1. PICK d : d = user[u].drv
  OBVIOUS
<1>2. /\ user[u] # Idle /\ ~user[u].freed /\ phase[d] # "dead"
      /\ ~(Needs(d, user[u].way) \subseteq has[d]) /\ Die(d, "early")
      /\ UNCHANGED <<machine, todo, has, bad, left, user, troubled, aborted>>
  BY <1>1 DEF Use
<1>3. d \in Drivers /\ user[u].way \in Ways
  BY <1>1, <1>2 DEF LifeInv, LifeTypes, Inside
<1>4. UseFacts(d) /\ PhaseInv(d)
  BY <1>3, RecipesAreSafe DEF RecipeFacts, SafeRecipe, LifeInv
<1>5. d \in troubled \/ LateObject(d)
  <2>1. CASE user[u].way = "file"
    BY <2>1, <1>2, <1>4 DEF UseFacts
  <2>2. CASE user[u].way = "attr"
    <3>1. In(u, d, "attr")
      BY <2>2, <1>1, <1>2 DEF In
    <3>2. Entries("attr") \cap has[d] # {}
      BY <3>1, <1>2, <1>3 DEF LifeInv, UserInv
    <3>3. d \notin troubled => Needs(d, "attr") \subseteq has[d]
      BY <3>2, <1>2, <1>4 DEF PhaseInv, Supplied
    <3>4. QED
      BY <3>3, <2>2, <1>2
  <2>3. QED
    BY <2>1, <2>2, <1>3 DEF Ways
<1>6. QED
  BY <1>2, <1>3, <1>5, DeathKeeps

\* A process that leaves a freed module had it taken away by a failed init.
LEMMA LeaveKeeps ==
  ASSUME LifeInv, NEW u \in Users, Leave(u)
  PROVE  LifeInv'
<1>1. LifeTypes /\ user[u] # Idle /\ aborted \subseteq troubled
  BY DEF LifeInv, LifeTypes, Leave
<1>2. /\ phase' = phase /\ todo' = todo /\ has' = has /\ bad' = bad /\ left' = left
      /\ troubled' = troubled /\ aborted' = aborted /\ machine' = machine
      /\ user' = [user EXCEPT ![u] = Idle]
  BY DEF Leave
<1>3. /\ user'[u] = Idle /\ \A v \in Users \ {u} : user'[v] = user[v]
  BY <1>1, <1>2 DEF LifeTypes
<1>4. LifeTypes' /\ PinnedWhileUsed' /\ \A v \in Users : UserInv(v)'
  <2>1. LifeTypes'
    BY <1>1, <1>2 DEF LifeTypes
  <2>2. PinnedWhileUsed'
    BY <1>2, <1>3 DEF LifeInv, PinnedWhileUsed
  <2>3. \A v \in Users : UserInv(v)'
    BY <1>2, <1>3 DEF LifeInv, UserInv, In
  <2>4. QED
    BY <2>1, <2>2, <2>3
<1>5. HealthyIsSafe' /\ NothingLeft' /\ \A e \in Drivers : PhaseInv(e)'
  <2>1. CASE user[u].freed
    <3>1. PICK d : d = user[u].drv /\ d \in troubled
      BY <2>1, <1>1 DEF LifeInv, PinnedWhileUsed
    <3>2. oops' = oops \cup {<<d, "freed">>}
      BY <2>1, <3>1 DEF Leave
    <3>3. QED
      BY <3>1, <3>2, <1>2, OopsKeeps
  <2>2. CASE ~user[u].freed
    <3>1. oops' = oops
      BY <2>2 DEF Leave
    <3>2. HealthyIsSafe' /\ NothingLeft'
      BY <3>1, <1>2 DEF LifeInv, HealthyIsSafe, NothingLeft
    <3>3. QED
      BY <3>2, <1>2, OthersKept DEF LifeInv, Same
  <2>3. QED
    BY <2>1, <2>2
<1>6. QED
  BY <1>4, <1>5 DEF LifeInv

\* The invariant of the life cycle: what a driver has is what its recipe
\* says at that point, what is left to do settles it, and whoever is in a
\* module holds it there.
THEOREM LifeInvariant == Spec => []LifeInv
<1>1. Init => LifeInv
  <2>1. SUFFICES ASSUME Init PROVE LifeInv
    OBVIOUS
  <2>2. LifeTypes
    BY <2>1, MachinesAssumption DEF Init, LifeTypes, Phases
  <2>3. \A d \in Drivers : PhaseInv(d)
    BY <2>1 DEF Init, PhaseInv, Supplied
  <2>4. \A u \in Users : UserInv(u)
    BY <2>1 DEF Init, UserInv, In
  <2>5. HealthyIsSafe /\ PinnedWhileUsed /\ NothingLeft
    BY <2>1 DEF Init, HealthyIsSafe, PinnedWhileUsed, NothingLeft
  <2>6. QED
    BY <2>2, <2>3, <2>4, <2>5 DEF LifeInv
<1>2. LifeInv /\ [Next]_vars => LifeInv'
  <2>1. SUFFICES ASSUME LifeInv, [Next]_vars PROVE LifeInv'
    OBVIOUS
  <2>2. CASE UNCHANGED vars
    <3>1. \A d \in Drivers : PhaseInv(d)'
      BY <2>1, <2>2, OthersKept DEF LifeInv, Same, vars
    <3>2. QED
      BY <3>1, <2>1, <2>2 DEF LifeInv, LifeTypes, UserInv, In, HealthyIsSafe,
                              PinnedWhileUsed, NothingLeft, vars
  <2>3. ASSUME NEW d \in machine, Insmod(d) PROVE LifeInv'
    BY <2>1, <2>3, InsmodKeeps
  <2>4. ASSUME NEW d \in machine, Succeed(d) PROVE LifeInv'
    BY <2>1, <2>4, SucceedKeeps
  <2>5. ASSUME NEW d \in machine, Fail(d) PROVE LifeInv'
    BY <2>1, <2>5, FailKeeps
  <2>6. ASSUME NEW d \in machine, Loaded(d) PROVE LifeInv'
    BY <2>1, <2>6, LoadedKeeps
  <2>7. ASSUME NEW d \in machine, Rmmod(d) PROVE LifeInv'
    BY <2>1, <2>7, RmmodKeeps
  <2>8. ASSUME NEW d \in machine, Release(d) PROVE LifeInv'
    BY <2>1, <2>8, ReleaseKeeps
  <2>9. ASSUME NEW d \in machine, Finish(d) PROVE LifeInv'
    BY <2>1, <2>9, FinishKeeps
  <2>10. ASSUME NEW u \in Users, NEW d \in machine, NEW way \in Ways, Enter(u, d, way)
         PROVE  LifeInv'
    BY <2>1, <2>10, EnterKeeps
  <2>11. ASSUME NEW u \in Users, NEW d \in machine, NEW way \in Ways, EnterFreed(u, d, way)
         PROVE  LifeInv'
    BY <2>1, <2>11, EnterFreedKeeps
  <2>12. ASSUME NEW u \in Users, Use(u) PROVE LifeInv'
    BY <2>1, <2>12, UseKeeps
  <2>13. ASSUME NEW u \in Users, Leave(u) PROVE LifeInv'
    BY <2>1, <2>13, LeaveKeeps
  <2>14. ASSUME NEW d \in machine, ThreadEnds(d) PROVE LifeInv'
    BY <2>1, <2>14, ThreadEndsKeeps
  <2>15. ASSUME NEW d \in machine, LeftThread(d) PROVE LifeInv'
    BY <2>1, <2>15, LeftThreadKeeps
  <2>16. QED
    BY <2>1, <2>2, <2>3, <2>4, <2>5, <2>6, <2>7, <2>8, <2>9, <2>10, <2>11,
       <2>12, <2>13, <2>14, <2>15 DEF Next
<1>3. QED
  BY <1>1, <1>2, PTL DEF Spec

\* Whatever is loaded, unloaded and used in whatever order, the life cycle
\* gives a driver none of whose init calls has failed two oopses at most: an
\* early use, and a thread that exit wakes and does not wait for.
THEOREM HealthyDriversAreSafe == Spec => []HealthyIsSafe
<1>1. LifeInv => HealthyIsSafe
  BY DEF LifeInv
<1>2. QED
  BY <1>1, LifeInvariant, PTL

\* A module stays in memory while one of its files is open or one of its
\* entries is in use, unless its init fails behind its users' back.
THEOREM UsersPinTheModule == Spec => []PinnedWhileUsed
<1>1. LifeInv => PinnedWhileUsed
  BY DEF LifeInv
<1>2. QED
  BY <1>1, LifeInvariant, PTL

\* A module that has gone has left nothing behind but what NothingLeft names.
THEOREM ModulesCleanUp == Spec => []NothingLeft
<1>1. LifeInv => NothingLeft
  BY DEF LifeInv
<1>2. QED
  BY <1>1, LifeInvariant, PTL

----------------------------------------------------------------------------
(* The device numbers of a machine, and the class name.                    *)

Numbered     == {d \in Drivers : "number" \in has[d]}
KeepsNumbers == \A e \in machine : "number" \notin Unreleased(e)

(* If every exit gives its number back, the numbers that are not free are  *)
(* those the drivers of the machine have.                                  *)
CountInv ==
  /\ \A e \in Drivers \ machine : phase[e] = "out"
  /\ KeepsNumbers => free = Pool - Cardinality(Numbered)

\* There are twelve drivers, so the numbered ones can be counted.
LEMMA NumberedFinite == IsFiniteSet(Numbered)
<1> DEFINE names == <<"device_file", "file_operation", "fops", "ioctl", "procfs", "sysfs",
                      "static_waitqueue", "dynamic_waitqueue", "dev_numb", "major_minor",
                      "virtual_driver", "led_reconf">>
<1>1. Drivers = {"device_file", "file_operation", "fops", "ioctl", "procfs", "sysfs",
                 "static_waitqueue", "dynamic_waitqueue", "dev_numb", "major_minor",
                 "virtual_driver", "led_reconf"}
  BY DEF Drivers, Recipes
<1>2. /\ names \in Seq(Drivers) /\ Len(names) = 12
      /\ \A d \in Drivers : \E n \in 1..12 : names[n] = d
  BY <1>1
<1>3. IsFiniteSet(Drivers)
  BY <1>2 DEF IsFiniteSet
<1>4. QED
  BY <1>3, FS_Subset DEF Numbered

\* Steps that register and release no number.
LEMMA CountSame ==
  ASSUME CountInv, machine' = machine, free' = free,
         \A e \in Drivers \ machine : phase'[e] = phase[e],
         KeepsNumbers =>
           \A e \in Drivers : "number" \in has'[e] <=> "number" \in has[e]
  PROVE  CountInv'
<1>1. KeepsNumbers' <=> KeepsNumbers
  BY DEF KeepsNumbers
<1>2. KeepsNumbers => Numbered' = Numbered
  BY DEF Numbered
<1>3. QED
  BY <1>1, <1>2 DEF CountInv

\* Nothing that may stay behind is a class, nor a number where no exit
\* keeps one.
LEMMA NotKept ==
  ASSUME NEW d \in Drivers
  PROVE  /\ "class" \notin Allowed(d)
         /\ "number" \notin Unreleased(d) => "number" \notin Allowed(d)
         /\ "number" \in Outlives
BY DEF Allowed, Unreleased, Forgets, Outlives, Resources, ErrorOf

\* A failure that init tolerates.
GoesOn(step) == Noticed(step) /\ step.next = "go on"

\* What init makes next, it has not made yet.
LEMMA NotYetMade ==
  ASSUME NEW d \in Drivers, Loading(d), todo[d] # <<>>
  PROVE  /\ Head(todo[d]).what \notin has[d]
         /\ GoesOn(Head(todo[d])) =>
              Released(Head(todo[d]).undo) \cap has[d] \subseteq {"kobject"}
<1>1. InitOf(d) \in Seq(Steps) /\ StepFacts(d) /\ Distinct(d)
  BY RecipesAreSafe DEF RecipeFacts, SafeRecipe
<1>2. PICK k \in 1..(Len(InitOf(d)) + 1) :
        /\ todo[d] = SubSeq(InitOf(d), k, Len(InitOf(d)))
        /\ has[d] \subseteq Before(d, k)
  BY DEF Loading
<1>3. k \in DOMAIN InitOf(d) /\ Head(todo[d]) = InitOf(d)[k]
  BY <1>1, <1>2, NextStep
<1>4. InitOf(d)[k].what \notin Before(d, k)
  <2>1. \A i \in 1..(k - 1) : i \in DOMAIN InitOf(d) /\ i # k
    BY <1>1, <1>2, <1>3
  <2>2. QED
    BY <2>1, <1>1, <1>3 DEF Before, Distinct
<1>5. GoesOn(InitOf(d)[k]) =>
        Released(InitOf(d)[k].undo) \cap Before(d, k) \subseteq {"kobject"}
  BY <1>1, <1>3 DEF StepFacts, StepFact, GoesOn
<1>6. QED
  BY <1>2, <1>3, <1>4, <1>5

\* A step of init takes at most one number.
LEMMA SucceedCounts ==
  ASSUME LifeInv, CountInv, NEW d \in machine, Succeed(d)
  PROVE  CountInv'
<1>1. /\ d \in Drivers /\ LifeTypes /\ todo[d] # <<>> /\ Loading(d)
      /\ has' = [has EXCEPT ![d] = @ \cup {Head(todo[d]).what}]
      /\ free' = IF Head(todo[d]).what = "number" THEN free - 1 ELSE free
      /\ machine' = machine /\ phase' = phase
  BY DEF LifeInv, LifeTypes, Succeed, PhaseInv
<1>2. CASE Head(todo[d]).what # "number"
  <2>1. \A e \in Drivers : "number" \in has'[e] <=> "number" \in has[e]
    BY <1>1, <1>2 DEF LifeTypes
  <2>2. QED
    BY <2>1, <1>1, <1>2, CountSame
<1>3. CASE Head(todo[d]).what = "number"
  <2>1. "number" \notin has[d]
    BY <1>1, <1>3, NotYetMade
  <2>2. Numbered' = Numbered \cup {d} /\ d \notin Numbered
    BY <2>1, <1>1, <1>3 DEF Numbered, LifeTypes
  <2>3. /\ Cardinality(Numbered \cup {d}) = Cardinality(Numbered) + 1
        /\ Cardinality(Numbered) \in Nat
    BY <2>2, NumberedFinite, FS_AddElement, FS_CardinalityType
  <2>4. free' = free - 1 /\ (KeepsNumbers' <=> KeepsNumbers)
    BY <1>1, <1>3 DEF KeepsNumbers
  <2>5. KeepsNumbers => free' = Pool - Cardinality(Numbered')
    BY <2>2, <2>3, <2>4, PoolAssumption DEF CountInv
  <2>6. QED
    BY <2>4, <2>5, <1>1 DEF CountInv
<1>4. QED
  BY <1>2, <1>3

\* A failed step of init neither takes nor returns one.
LEMMA FailCounts ==
  ASSUME LifeInv, CountInv, NEW d \in machine, Fail(d)
  PROVE  CountInv'
<1>1. /\ d \in Drivers /\ LifeTypes /\ todo[d] # <<>> /\ Loading(d)
      /\ machine' = machine /\ free' = free
  BY DEF LifeInv, LifeTypes, Fail, PhaseInv
<1>2. \/ has' = has
      \/ /\ GoesOn(Head(todo[d]))
         /\ has' = [has EXCEPT ![d] = @ \ Released(Head(todo[d]).undo)]
  BY DEF Fail, Released, GoesOn
<1>3. \A e \in Drivers : "number" \in has'[e] <=> "number" \in has[e]
  BY <1>1, <1>2, NotYetMade DEF LifeTypes
<1>4. \A e \in Drivers \ machine : phase'[e] = phase[e]
  BY <1>1 DEF LifeTypes, Fail, Die
<1>5. QED
  BY <1>1, <1>3, <1>4, CountSame

\* A release call that finds a number gives it back.
LEMMA ReleaseCounts ==
  ASSUME LifeInv, CountInv, NEW d \in machine, Release(d)
  PROVE  CountInv'
<1>1. d \in Drivers /\ LifeTypes /\ machine' = machine
  BY DEF LifeInv, LifeTypes, Release
<1>2. \A e \in Drivers \ machine : phase'[e] = phase[e]
  BY <1>1 DEF LifeTypes, Release, Die
<1>3. PICK taken : taken = Releases[Head(todo[d])]
  OBVIOUS
<1>4. \/ has' = has /\ free' = free
      \/ /\ has' = [has EXCEPT ![d] = @ \ taken]
         /\ free' = IF "number" \in has[d] \cap taken THEN free + 1 ELSE free
  BY <1>3 DEF Release
<1>5. CASE has' = has /\ free' = free
  BY <1>1, <1>2, <1>5, CountSame
<1>6. CASE /\ has' = [has EXCEPT ![d] = @ \ taken] /\ free' = free
           /\ "number" \notin has[d] \cap taken
  <2>1. \A e \in Drivers : "number" \in has'[e] <=> "number" \in has[e]
    BY <1>1, <1>6 DEF LifeTypes
  <2>2. QED
    BY <2>1, <1>1, <1>2, <1>6, CountSame
<1>7. CASE /\ has' = [has EXCEPT ![d] = @ \ taken] /\ free' = free + 1
           /\ "number" \in has[d] \cap taken
  <2>1. Numbered' = Numbered \ {d} /\ d \in Numbered
    BY <1>1, <1>7 DEF Numbered, LifeTypes
  <2>2. /\ Cardinality(Numbered \ {d}) = Cardinality(Numbered) - 1
        /\ Cardinality(Numbered) \in Nat
    BY <2>1, NumberedFinite, FS_RemoveElement, FS_CardinalityType
  <2>3. KeepsNumbers' <=> KeepsNumbers
    BY <1>1 DEF KeepsNumbers
  <2>4. KeepsNumbers => free' = Pool - Cardinality(Numbered')
    BY <2>1, <2>2, <1>7, PoolAssumption DEF CountInv
  <2>5. QED
    BY <2>3, <2>4, <1>1, <1>2 DEF CountInv
<1>8. QED
  BY <1>4, <1>5, <1>6, <1>7

\* A module that goes has given its number back, if its exit does so.
LEMMA FinishCounts ==
  ASSUME LifeInv, CountInv, NEW d \in machine, Finish(d)
  PROVE  CountInv'
<1>1. /\ d \in Drivers /\ LifeTypes /\ PhaseInv(d) /\ machine' = machine /\ free' = free
      /\ phase[d] \in {"undoing", "unloading"} /\ todo[d] = <<>>
  BY DEF LifeInv, LifeTypes, Finish
<1>2. \A e \in Drivers \ machine : phase'[e] = phase[e]
  BY <1>1 DEF LifeTypes, Finish
<1>3. CASE StaysLoaded(d)
  <2>1. has' = has
    BY <1>3 DEF Finish
  <2>2. QED
    BY <2>1, <1>1, <1>2, CountSame
<1>4. CASE ~StaysLoaded(d)
  <2>1. has' = [has EXCEPT ![d] = {}]
    BY <1>4 DEF Finish
  <2>2. Settles(d)
    BY <1>1, <1>4 DEF PhaseInv, StaysLoaded, Undoing, Unloading
  <2>3. has[d] \cap Outlives \subseteq Allowed(d)
    BY <2>2, <1>1, NoCall DEF Settles
  <2>4. KeepsNumbers => "number" \notin has[d]
    BY <2>3, <1>1, NotKept DEF KeepsNumbers
  <2>5. KeepsNumbers => \A e \in Drivers : "number" \in has'[e] <=> "number" \in has[e]
    BY <2>1, <2>4, <1>1 DEF LifeTypes
  <2>6. QED
    BY <2>5, <1>1, <1>2, CountSame
<1>5. QED
  BY <1>3, <1>4

\* Whoever runs a handler is in a driver of the machine.
LEMMA UseCounts ==
  ASSUME LifeInv, CountInv, NEW u \in Users, Use(u)
  PROVE  CountInv'
<1>1. PICK d : d = user[u].drv
  OBVIOUS
<1>2. /\ user[u] # Idle /\ ~user[u].freed /\ Die(d, "early")
      /\ has' = has /\ free' = free /\ machine' = machine /\ LifeTypes
  BY <1>1 DEF Use, LifeInv
<1>3. d \in Drivers /\ user[u].way \in Ways
  BY <1>1, <1>2 DEF LifeTypes, Inside
<1>4. phase[d] # "out"
  BY <1>1, <1>2, <1>3 DEF LifeInv, UserInv, In, Ways
<1>5. \A e \in Drivers \ machine : phase'[e] = phase[e]
  BY <1>2, <1>3, <1>4 DEF CountInv, LifeTypes, Die
<1>6. QED
  BY <1>2, <1>5, CountSame

\* The count of the numbers holds all along.
LEMMA CountInvariant == Spec => []CountInv
<1>1. Init => CountInv
  <2>1. Init => Numbered = {} /\ free = Pool /\ Pool \in Nat
    BY PoolAssumption DEF Init, Numbered
  <2>2. Cardinality({}) = 0
    BY FS_EmptySet
  <2>3. Init => free = Pool - Cardinality(Numbered)
    BY <2>1, <2>2
  <2>4. Init => \A e \in Drivers \ machine : phase[e] = "out"
    BY DEF Init
  <2>5. QED
    BY <2>3, <2>4 DEF CountInv
<1>2. LifeInv /\ CountInv /\ [Next]_vars => CountInv'
  <2>1. SUFFICES ASSUME LifeInv, CountInv, [Next]_vars PROVE CountInv'
    OBVIOUS
  <2>2. LifeTypes /\ \A d \in Drivers : phase[d] = "out" => has[d] = {}
    BY <2>1 DEF LifeInv, PhaseInv
  <2>3. CASE UNCHANGED vars
    BY <2>1, <2>3, CountSame DEF vars
  <2>4. ASSUME NEW d \in machine, Insmod(d) PROVE CountInv'
    <3>1. /\ machine' = machine /\ free' = free
          /\ \A e \in Drivers \ machine : phase'[e] = phase[e]
          /\ \A e \in Drivers : "number" \in has'[e] <=> "number" \in has[e]
      BY <2>2, <2>4 DEF Insmod, LifeTypes
    <3>2. QED
      BY <3>1, <2>1, CountSame
  <2>5. ASSUME NEW d \in machine, Loaded(d) \/ Rmmod(d) PROVE CountInv'
    <3>1. /\ machine' = machine /\ free' = free /\ has' = has
          /\ \A e \in Drivers \ machine : phase'[e] = phase[e]
      BY <2>2, <2>5 DEF Loaded, Rmmod, LifeTypes
    <3>2. QED
      BY <3>1, <2>1, CountSame
  <2>6. ASSUME NEW d \in machine, ThreadEnds(d) \/ LeftThread(d) PROVE CountInv'
    <3>1. /\ machine' = machine /\ free' = free /\ phase' = phase
          /\ \A e \in Drivers : "number" \in has'[e] <=> "number" \in has[e]
      BY <2>2, <2>6 DEF ThreadEnds, LeftThread, LifeTypes
    <3>2. QED
      BY <3>1, <2>1, CountSame
  <2>7. ASSUME NEW u \in Users, NEW d \in machine, NEW way \in Ways,
               Enter(u, d, way) \/ EnterFreed(u, d, way)
        PROVE  CountInv'
    BY <2>1, <2>7, CountSame DEF Enter, EnterFreed
  <2>8. ASSUME NEW u \in Users, Leave(u) PROVE CountInv'
    BY <2>1, <2>8, CountSame DEF Leave
  <2>9. ASSUME NEW d \in machine, Succeed(d) \/ Fail(d) \/ Release(d) \/ Finish(d)
        PROVE  CountInv'
    BY <2>1, <2>9, SucceedCounts, FailCounts, ReleaseCounts, FinishCounts
  <2>10. ASSUME NEW u \in Users, Use(u) PROVE CountInv'
    BY <2>1, <2>10, UseCounts
  <2>11. QED
    BY <2>1, <2>3, <2>4, <2>5, <2>6, <2>7, <2>8, <2>9, <2>10 DEF Next
<1>3. QED
  BY <1>1, <1>2, LifeInvariant, PTL DEF Spec

\* However often drivers were loaded before, one that is loaded alone finds
\* the class name free, and a number, if every exit gives its number back.
THEOREM DriversLoadAgain == Spec => []LoadsAgain
<1>1. LifeInv /\ CountInv => LoadsAgain
  <2>1. SUFFICES ASSUME LifeInv, CountInv, NEW d \in machine,
                        phase[d] = "loading", todo[d] # <<>>,
                        \A e \in machine \ {d} : phase[e] = "out",
                        NEW what, what = Head(todo[d]).what,
                        \/ what = "class"
                        \/ what = "number" /\ KeepsNumbers
                 PROVE  Grants(d, what)
    BY DEF LoadsAgain, KeepsNumbers
  <2>2. d \in Drivers /\ Loading(d)
    BY <2>1 DEF LifeInv, LifeTypes, PhaseInv
  <2>3. \A e \in Drivers \ {d} : has[e] = {}
    BY <2>1 DEF LifeInv, PhaseInv, CountInv
  <2>4. what \notin has[d]
    BY <2>1, <2>2, NotYetMade
  <2>5. CASE what = "class"
    <3>1. \A e \in Drivers : "class" \notin left[e]
      <4>1. \A e \in Drivers : left[e] \subseteq Allowed(e)
        BY <2>1 DEF LifeInv, NothingLeft, Allowed
      <4>2. QED
        BY <4>1, NotKept
    <3>2. \A e \in Drivers : "class" \notin has[e]
      BY <2>3, <2>4, <2>5
    <3>3. QED
      BY <3>1, <3>2, <2>5 DEF Grants
  <2>6. CASE what = "number" /\ KeepsNumbers
    <3>1. Numbered = {}
      BY <2>3, <2>4, <2>6 DEF Numbered
    <3>2. free = Pool - Cardinality(Numbered)
      BY <2>1, <2>6 DEF CountInv
    <3>3. Cardinality({}) = 0
      BY FS_EmptySet
    <3>4. free > 0
      BY <3>1, <3>2, <3>3, PoolAssumption
    <3>5. QED
      BY <3>4, <2>6 DEF Grants
  <2>7. QED
    BY <2>1, <2>5, <2>6
<1>2. QED
  BY <1>1, LifeInvariant, CountInvariant, PTL

----------------------------------------------------------------------------
(* The wait-queue driver at work: its thread, its readers and its exit.    *)

(* The event behind a raised flag is not counted before Count has run.     *)
Uncounted ==
  /\ tpc = "test" => flag # 0
  /\ tpc \in {"check", "asleep", "test"} /\ flag = 1 => read_count + 1 <= reads
  /\ tpc = "count" => read_count + 1 <= reads

(* A flag is only ever down because the thread took it down after Count.   *)
TakenDown ==
  /\ tpc \in {"check", "asleep"} /\ flag = 0 /\ reads > 0 => read_count > 0
  /\ tpc = "clear" => read_count > 0

WaitInv == TypeOK /\ NeverOverCounts /\ Uncounted /\ TakenDown /\ NoLostWakeup

(* init leaves the flag down and nothing counted. *)
LEMMA WaitInitHolds == WaitInit => WaitInv
  BY ReadsAssumption, SMT DEF WaitInit, WaitInv, TypeOK, NeverOverCounts, Uncounted, TakenDown, NoLostWakeup,
     ThreadStates, ReaderStates, ExitStates

(* One pass of the loop of wait_function keeps the invariant. *)
LEMMA ThreadKeepsWait == ASSUME WaitInv, ThreadNext PROVE WaitInv'
<1> USE ReadsAssumption DEF WaitInv, TypeOK, NeverOverCounts, Uncounted, TakenDown, NoLostWakeup,
        ThreadStates, ReaderStates, ExitStates, Thread
<1>1. CASE Check
  BY <1>1 DEF Check
<1>2. CASE Test
  BY <1>2 DEF Test
<1>3. CASE Count
  BY <1>3 DEF Count
<1>4. CASE Clear
  BY <1>4 DEF Clear
<1> QED BY <1>1, <1>2, <1>3, <1>4 DEF ThreadNext

(* Open, read and close keep the invariant, whichever process does them. *)
LEMMA ReadersKeepWait == ASSUME WaitInv, NEW r \in Readers, ReaderNext(r) PROVE WaitInv'
<1> USE ReadsAssumption DEF WaitInv, TypeOK, NeverOverCounts, Uncounted, TakenDown, NoLostWakeup,
        ThreadStates, ReaderStates, ExitStates, WakeUp
<1>1. CASE Open(r)
  BY <1>1 DEF Open
<1>2. CASE Read(r)
  BY <1>2 DEF Read
<1>3. CASE ReadWakes(r)
  BY <1>3 DEF ReadWakes
<1>4. CASE Close(r)
  BY <1>4 DEF Close
<1> QED BY <1>1, <1>2, <1>3, <1>4 DEF ReaderNext

(* The exit function keeps the invariant. *)
LEMMA ExitKeepsWait == ASSUME WaitInv, ExitBegins \/ ExitNext PROVE WaitInv'
<1> USE ReadsAssumption DEF WaitInv, TypeOK, NeverOverCounts, Uncounted, TakenDown, NoLostWakeup,
        ThreadStates, ReaderStates, ExitStates, WakeUp
<1>1. CASE ExitBegins
  BY <1>1 DEF ExitBegins
<1>2. CASE ExitFlags
  BY <1>2 DEF ExitFlags
<1>3. CASE ExitWakes
  BY <1>3 DEF ExitWakes
<1>4. CASE Unload
  BY <1>4 DEF Unload
<1> QED BY <1>1, <1>2, <1>3, <1>4 DEF ExitNext

(* The invariant holds in every reachable state. *)
THEOREM WaitInvariant == WaitSpec => []WaitInv
<1>1. ASSUME WaitInv, [WaitNext]_waitVars PROVE WaitInv'
  <2>1. CASE UNCHANGED waitVars
    BY <1>1, <2>1 DEF waitVars, WaitInv, TypeOK, NeverOverCounts, Uncounted, TakenDown, NoLostWakeup
  <2> QED BY <1>1, <2>1, ThreadKeepsWait, ReadersKeepWait, ExitKeepsWait DEF WaitNext
<1> QED BY WaitInitHolds, <1>1, PTL DEF WaitSpec

(* Variables keep their types, and the module never goes with a file open. *)
THEOREM WaitTypes == WaitSpec => []TypeOK
<1>1. WaitInv => TypeOK
  BY DEF WaitInv
<1> QED BY <1>1, WaitInvariant, PTL

(* No event is counted twice. *)
THEOREM CountsOnce == WaitSpec => []NeverOverCounts
<1>1. WaitInv => NeverOverCounts
  BY DEF WaitInv
<1> QED BY <1>1, WaitInvariant, PTL

(* No wake-up is lost between the test of the flag and the sleep. *)
THEOREM WakeupsKept == WaitSpec => []NoLostWakeup
<1>1. WaitInv => NoLostWakeup
  BY DEF WaitInv
<1> QED BY <1>1, WaitInvariant, PTL

(* If events were raised, a thread back asleep has counted one. *)
THEOREM SomeEventCounted == WaitSpec => []BurstCounted
<1>1. WaitInv => BurstCounted
  BY DEF WaitInv, TakenDown, BurstCounted
<1> QED BY <1>1, WaitInvariant, PTL
============================================================================
