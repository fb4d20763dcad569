------------------------- MODULE ClassLoadingProofs -------------------------
(***************************************************************************)
(* The invariant IInv of ClassLoading is kept by every step, and what      *)
(* follows from it.                                                        *)
(***************************************************************************)
EXTENDS ClassLoadingLemmas

\* A load that ends without an exception has its class in the tables of LoadClass, for any
\* threads and class files, JNI DefineClass and loads that fail and are tried again included.
THEOREM ReturnsLoaded == Spec => []LoadedOnReturn
<1>1. RequestInv => LoadedOnReturn
  <2> SUFFICES ASSUME RequestInv, NEW t \in Threads,
                      pc[t] = "done" /\ exn[t] = "none" /\ scenario.job[t].entry # "done"
               PROVE  LET n == scenario.job[t].name IN
                      n \in initiatedClasses /\ (n \in loadedClasses \/ Foreign(n))
    BY Zenon DEF LoadedOnReturn
  <2> QED
    BY Zenon DEF RequestInv, RequestOf, TablesInv
<1> QED
  BY <1>1, InitRequest, RequestInvariant, PTL DEF Spec

-----------------------------------------------------------------------------
(* The second invariant is kept. *)

\* WaitLoading keeps LoadInv.
LEMMA WaitLoadingLoad ==
    ASSUME Steady, NEW t \in Threads, WaitLoading(t)
    PROVE  LoadInv'
<1>1. PICK n \in Names : n = Top(t)
  BY Zenon, SteadyFacts
<1>2. TypeInv /\ Framed(t) /\ MonitorInv /\ RequestInv /\ FilesAt(pc[t], n)
  BY Zenon, <1>1, SteadyFacts, SameLoad, WaitLoadingRequest
<1>3. /\ stack'[t] = stack[t] /\ exn'[t] # "linkage" /\ "inserted" \notin broken'
      /\ tables' = tables /\ loading' = loading /\ monitor' = monitor
      /\ \/ pc[t] = "spin" /\ pc'[t] = "start"
         \/ pc[t] = "heldspin" /\ pc'[t] = "wdspin"
  BY Zenon, <1>2, SameLoad, GotoShape DEF WaitLoading, tables, Labels, EngagedLabels
<1>4. MonitorInv'
  BY Zenon, <1>2, <1>3, MonitorKept DEF HeldLabels, Pops
<1>5. FilesAt(pc'[t], n)
  BY Zenon, <1>2, <1>3 DEF FilesAt, Failing
<1>6. ~Listed(t, n) \/ loading[n].signalled
  BY Zenon, <1>1 DEF Listed, WaitLoading
<1> QED
  BY Zenon, <1>1, <1>2, <1>3, <1>4, <1>5, <1>6, LabelLoad
     DEF EngagedLabels, DefineLabels, PursueLabels, Failing

\* LoadFromFile keeps LoadInv: it fails only for doomed names.
LEMMA LoadFromFileLoad ==
    ASSUME Steady, NEW t \in Threads, LoadFromFile(t)
    PROVE  LoadInv'
<1>1. PICK n \in Names : n = Top(t)
  BY Zenon, SteadyFacts
<1>2. TypeInv /\ Framed(t) /\ MonitorInv /\ RequestInv /\ FilesAt(pc[t], n) /\ EntryOf(n)
  BY Zenon, <1>1, SteadyFacts, SameLoad, LoadFromFileRequest
<1>3. ~scenario.user /\ ~IsArray(n) /\ Fate(n) \in Fates /\ ~Foreign(n) /\ ~Delegated(n)
  BY Zenon, <1>2, FileTypes DEF FilesAt, LoadFromFile, Foreign
<1>4. /\ stack'[t] = stack[t] /\ "inserted" \notin broken' /\ exn'[t] # "linkage"
      /\ tables' = tables /\ loading' = loading /\ monitor' = monitor
      /\ \/ pc'[t] = "fail" /\ Fate(n) = "missing"
         \/ pc'[t] = "define" /\ Fate(n) # "missing"
  <2>1. /\ stack'[t] = stack[t] /\ "inserted" \notin broken'
        /\ tables' = tables /\ loading' = loading /\ monitor' = monitor
    BY Zenon, SameLoad DEF LoadFromFile, tables
  <2>2. CASE Fate(n) = "missing"
    BY Zenon, <1>1, <1>2, <2>1, <2>2, GotoShape, RaiseExcepts DEF LoadFromFile, Labels, Failing
  <2>3. CASE Fate(n) # "missing"
    BY Zenon, <1>1, <1>2, <2>1, <2>3, GotoShape, SameLoad DEF LoadFromFile, Labels, EngagedLabels
  <2> QED
    BY Zenon, <2>2, <2>3
<1>5. ~Found(n)
  <2>1. Engaged(t, n)
    BY Zenon, <1>1 DEF LoadFromFile, Engaged, EngagedLabels
  <2> QED
    BY Zenon, <1>2, <1>3, <2>1, FoundFine DEF EntryOf, LoadedEntry
<1>6. MonitorInv'
  BY Zenon, <1>2, <1>3, <1>4, MonitorKept
<1>7. FilesAt(pc'[t], n)
  <2>1. Fate(n) = "missing" => n \in Doomed
    BY Zenon, DoomedFile
  <2> QED
    BY Zenon, <1>3, <1>4, <2>1 DEF FilesAt, Failing, Fates, IsArray, Delegated
<1> QED
  BY Zenon, <1>1, <1>2, <1>4, <1>5, <1>6, <1>7, LabelLoad
     DEF EngagedLabels, DefineLabels, PursueLabels, Failing, LoadFromFile

\* An array's base class is loaded first: the array stays in the stack.
LEMMA SetupAsArrayLoad ==
    ASSUME Steady, NEW t \in Threads, SetupAsArray(t)
    PROVE  LoadInv'
<1>1. PICK n \in Names : n = Top(t)
  BY Zenon, SteadyFacts
<1>2. /\ TypeInv /\ RequestOf(t) /\ Framed(t) /\ Pushes(t) /\ MonitorInv /\ RequestInv
      /\ \A m : IsArray(m)' = IsArray(m)
  BY Zenon, SteadyFacts, SameLoad, SetupAsArrayRequest, FilesStay DEF Framed
<1>3. /\ "inserted" \notin broken' /\ tables' = tables /\ loading' = loading
      /\ monitor' = monitor /\ exn'[t] # "linkage" /\ pc[t] = "array" /\ IsArray(n)
  BY Zenon, <1>1, <1>2, SameLoad DEF SetupAsArray, tables, RequestOf
<1>4. pc'[t] = "start" /\ Below(t)' = Below(t) \cup {n}
  BY Zenon, <1>1, <1>2, MovedNames DEF Pushes
<1>5. MonitorInv'
  BY Zenon, <1>1, <1>2, <1>3, <1>4, MonitorKept
<1>6. FilesOf(t)'
  <2>1. PICK m : m = Top(t)'
    BY Zenon
  <2>2. FilesAt(pc'[t], m)
    BY Zenon, <1>4 DEF FilesAt, Failing
  <2> QED
    BY Zenon, <1>2, <2>1, <2>2, FilesMove
<1>7. AloneOf(t)'
  BY Zenon, <1>3, <1>4 DEF AloneOf
<1>8. Shrinks(t, n)
  BY Zenon, <1>1, <1>2, <1>3, <1>4
     DEF Shrinks, Engaged, Defining, Pursues, EngagedLabels, DefineLabels
<1>9. Quiet(t, n)
  BY Zenon, <1>3, <1>8 DEF Quiet, tables, Found
<1> QED
  BY Zenon, <1>1, <1>2, <1>3, <1>5, <1>6, <1>7, <1>9, QuietLoad

\* Entering loadClass keeps LoadInv.
LEMMA EnterLoad ==
    ASSUME Steady, NEW t \in Threads, EnterLoadClass(t)
    PROVE  LoadInv'
<1>1. PICK n \in Names : n = Top(t)
  BY Zenon, SteadyFacts
<1>2. TypeInv /\ Framed(t) /\ FilesAt(pc[t], n) /\ RequestInv
  BY Zenon, <1>1, SteadyFacts, SameLoad, MonitorRequest
<1>3. /\ stack'[t] = stack[t] /\ exn'[t] # "linkage" /\ "inserted" \notin broken'
      /\ tables' = tables /\ loading' = loading
      /\ pc[t] = "java" /\ pc'[t] = "lookup"
  BY Zenon, <1>2, SameLoad, GotoShape DEF EnterLoadClass, tables, Labels, EngagedLabels
<1>4. MonitorInv'
  BY Zenon, <1>2, EnterMonitor
<1>5. FilesAt(pc'[t], n)
  BY Zenon, <1>2, <1>3 DEF FilesAt, Failing
<1> QED
  BY Zenon, <1>1, <1>2, <1>3, <1>4, <1>5, LabelLoad
     DEF EngagedLabels, DefineLabels, PursueLabels, Failing

\* SearchClass keeps LoadInv: with the loader locked, who finds no class is the only one to
\* go on to define it.
LEMMA SearchClassLoad ==
    ASSUME Steady, NEW t \in Threads, SearchClass(t)
    PROVE  LoadInv'
<1>1. PICK n \in Names : n = Top(t)
  BY Zenon, SteadyFacts
<1>2. TypeInv /\ Framed(t) /\ MonitorInv /\ RequestInv /\ FilesAt(pc[t], n)
  BY Zenon, <1>1, SteadyFacts, SameLoad, SearchClassRequest
<1>3. scenario.user /\ ~IsArray(n) /\ Fate(n) \in Fates
  BY Zenon, <1>2, FileTypes DEF FilesAt, SearchClass
<1>4. /\ stack'[t] = stack[t] /\ "inserted" \notin broken' /\ exn'[t] # "linkage"
      /\ tables' = tables /\ loading' = loading /\ monitor' = monitor
      /\ \/ pc'[t] = "leave"
         \/ pc'[t] = "throw" /\ Fate(n) = "missing"
         \/ pc'[t] = "define" /\ ~Found(n) /\ Fate(n) \notin {"missing", "delegated"}
  <2>1. /\ stack'[t] = stack[t] /\ "inserted" \notin broken' /\ exn[t] # "linkage"
        /\ tables' = tables /\ loading' = loading /\ monitor' = monitor
    BY Zenon, SameLoad DEF SearchClass, tables
  <2>2. CASE Goto(t, "leave") /\ exn' = exn
    BY Zenon, <1>2, <2>1, <2>2, GotoShape DEF Labels
  <2>3. CASE Goto(t, "throw") /\ Raise(t, "notfound") /\ Fate(n) = "missing"
    BY Zenon, <1>2, <2>1, <2>3, GotoShape, RaiseExcepts DEF Labels, Failing
  <2>4. CASE Goto(t, "define") /\ exn' = exn /\ ~Found(n) /\ Fate(n) \notin {"missing", "delegated"}
    BY Zenon, <1>2, <2>1, <2>4, GotoShape DEF Labels, EngagedLabels
  <2> QED
    BY Zenon, <1>1, <2>2, <2>3, <2>4 DEF SearchClass
<1>5. pc[t] = "lookup"
  BY Zenon DEF SearchClass
<1>6. MonitorInv'
  <2>1. pc[t] \in HeldLabels /\ pc'[t] \in HeldLabels /\ ~Pops(t)
    BY Zenon, <1>4, <1>5 DEF HeldLabels, Pops
  <2> QED
    BY Zenon, <1>2, <1>4, <2>1, MonitorKept
<1>7. FilesAt(pc'[t], n)
  <2>1. Fate(n) = "missing" => n \in Doomed
    BY Zenon, DoomedFile
  <2> QED
    BY Zenon, <1>3, <1>4, <2>1 DEF FilesAt, Failing, Fates, IsArray
<1> QED
  BY Zenon, <1>1, <1>2, <1>4, <1>5, <1>6, <1>7, LabelLoad
     DEF EngagedLabels, DefineLabels, PursueLabels, Failing

\* Leaving loadClass keeps LoadInv.
LEMMA LeaveLoad ==
    ASSUME Steady, NEW t \in Threads, LeaveLoadClass(t)
    PROVE  LoadInv'
<1>1. PICK n \in Names : n = Top(t)
  BY Zenon, SteadyFacts
<1>2. TypeInv /\ RequestOf(t) /\ Framed(t) /\ FilesAt(pc[t], n) /\ RequestInv
  BY Zenon, <1>1, SteadyFacts, SameLoad, MonitorRequest
<1>3. /\ stack'[t] = stack[t] /\ exn'[t] # "linkage" /\ "inserted" \notin broken'
      /\ tables' = tables /\ loading' = loading
      /\ \/ pc[t] = "leave" /\ pc'[t] = "delegated"
         \/ pc[t] = "leave" /\ pc'[t] = "record" /\ Fate(n) # "delegated"
         \/ pc[t] = "throw" /\ pc'[t] = "refail"
  <2>1. /\ stack'[t] = stack[t] /\ exn'[t] # "linkage" /\ "inserted" \notin broken'
        /\ tables' = tables /\ loading' = loading
    BY Zenon, SameLoad DEF LeaveLoadClass, tables
  <2>2. CASE pc[t] = "leave" /\ Goto(t, IF Fate(Top(t)) = "delegated" THEN "delegated" ELSE "record")
    BY Zenon, <1>1, <1>2, <2>1, <2>2, GotoShape DEF Labels
  <2>3. CASE pc[t] = "throw" /\ Goto(t, "refail")
    BY Zenon, <1>2, <2>1, <2>3, GotoShape DEF Labels, Failing
  <2> QED
    BY Zenon, <2>2, <2>3 DEF LeaveLoadClass
<1>4. MonitorInv'
  BY Zenon, <1>2, LeaveMonitor
<1>5. FilesAt(pc'[t], n)
  BY Zenon, <1>2, <1>3 DEF FilesAt, Failing
<1>6. pc'[t] = "record" => Found(n)'
  BY Zenon, <1>1, <1>2, <1>3 DEF RequestOf, Found, tables, FilesAt, Foreign, Delegated
<1> QED
  BY Zenon, <1>1, <1>2, <1>3, <1>4, <1>5, <1>6, LabelLoad
     DEF EngagedLabels, DefineLabels, PursueLabels, Failing

\* LookupClass finds nothing: a thread that loads a class by name is not told that it is there.
LEMMA LookupClassLoad ==
    ASSUME Steady, NEW t \in Threads, LookupClass(t)
    PROVE  LoadInv' /\ pc'[t] = "waitdef" /\ stack'[t] = stack[t] /\ exn' = exn
<1>1. PICK n \in Names : n = Top(t)
  BY Zenon, SteadyFacts
<1>2. TypeInv /\ Framed(t) /\ MonitorInv /\ RequestInv /\ FilesAt(pc[t], n) /\ AloneOf(t)
  BY Zenon, <1>1, SteadyFacts, SameLoad, LookupClassRequest
<1>3. ~Found(n)
  BY Zenon, <1>1, <1>2 DEF AloneOf, LookupClass
<1>4. /\ stack'[t] = stack[t] /\ exn'[t] # "linkage" /\ "inserted" \notin broken' /\ exn' = exn
      /\ tables' = tables /\ loading' = loading /\ monitor' = monitor
      /\ pc[t] = "define" /\ pc'[t] = "waitdef"
  BY Zenon, <1>1, <1>2, <1>3, SameLoad, GotoShape DEF LookupClass, tables, Labels, EngagedLabels
<1>5. MonitorInv'
  <2>1. pc[t] \in HeldLabels /\ pc'[t] \in HeldLabels /\ ~Pops(t)
    BY Zenon, <1>2, <1>4, SteadyFacts, Popless DEF HeldLabels
  <2> QED
    BY Zenon, <1>2, <1>4, <2>1, MonitorKept
<1>6. FilesAt(pc'[t], n)
  BY Zenon, <1>2, <1>4 DEF FilesAt, Failing, IsArray, Delegated
<1> QED
  BY Zenon, <1>1, <1>2, <1>4, <1>5, <1>6, LabelLoad
     DEF EngagedLabels, DefineLabels, PursueLabels, Failing

\* NewClass keeps LoadInv: it fails only for doomed names.
LEMMA NewClassLoad ==
    ASSUME Steady, NEW t \in Threads, NewClass(t)
    PROVE  LoadInv'
<1>1. PICK n \in Names : n = Top(t)
  BY Zenon, SteadyFacts
<1>2. /\ TypeInv /\ RequestOf(t) /\ Framed(t) /\ MonitorInv /\ RequestInv /\ FilesAt(pc[t], n)
      /\ \A m : IsArray(m)' = IsArray(m)
  BY Zenon, <1>1, SteadyFacts, SameLoad, NewClassRequest, FilesStay DEF Framed
<1>3. /\ "inserted" \notin broken' /\ tables' = tables /\ loading' = loading
      /\ monitor' = monitor /\ pc[t] = "new" /\ exn[t] # "linkage"
      /\ Fate(n) \in {"fine", "malformed", "array"} /\ ~Delegated(n)
      /\ IsArray(n) => Ancestor(n) \in initiatedClasses
  BY Zenon, <1>2, SameLoad DEF NewClass, tables, FilesAt
<1>4. CASE Raise(t, "format") /\ Goto(t, "fail") /\ stack' = stack /\ Fate(n) = "malformed"
  <2>1. pc'[t] = "fail" /\ stack'[t] = stack[t] /\ exn'[t] # "linkage" /\ n \in Doomed
    BY Zenon, <1>2, <1>4, GotoShape, RaiseExcepts, DoomedFile DEF Labels, Failing
  <2>2. MonitorInv'
    <3>1. pc[t] \in HeldLabels /\ pc'[t] \in HeldLabels /\ ~Pops(t)
      BY Zenon, <1>2, <1>3, <2>1, Popless DEF HeldLabels
    <3> QED
      BY Zenon, <1>2, <1>3, <2>1, <3>1, MonitorKept
  <2>3. FilesAt(pc'[t], n)
    BY Zenon, <2>1 DEF FilesAt
  <2> QED
    BY Zenon, <1>1, <1>2, <1>3, <2>1, <2>2, <2>3, LabelLoad
       DEF EngagedLabels, DefineLabels, PursueLabels, Failing
<1>5. CASE /\ Goto(t, "insert") /\ stack' = stack /\ exn' = exn
           /\ IsArray(n) \/ (Fate(n) # "malformed" /\ Ancestor(n) = NoName)
  <2>1. pc'[t] = "insert" /\ stack'[t] = stack[t] /\ exn'[t] # "linkage"
    BY Zenon, <1>2, <1>3, <1>5, GotoShape DEF Labels, DefineLabels
  <2>2. MonitorInv'
    <3>1. pc[t] \in HeldLabels /\ pc'[t] \in HeldLabels /\ ~Pops(t)
      BY Zenon, <1>2, <1>3, <2>1, Popless DEF HeldLabels
    <3> QED
      BY Zenon, <1>2, <1>3, <2>1, <3>1, MonitorKept
  <2>3. FilesAt(pc'[t], n)
    BY Zenon, <1>3, <1>5, <2>1 DEF FilesAt, IsArray, Failing
  <2> QED
    BY Zenon, <1>1, <1>2, <1>3, <2>1, <2>2, <2>3, LabelLoad
       DEF EngagedLabels, DefineLabels, PursueLabels, Failing
<1>6. CASE /\ Fate(n) \notin {"malformed", "array"} /\ Ancestor(n) # NoName
           /\ stack' = [stack EXCEPT ![t] = <<Ancestor(n)>> \o @] /\ Goto(t, "start")
           /\ exn' = exn
  <2>1. Pushes(t) /\ exn'[t] # "linkage" /\ ~IsArray(n)
    <3>1. Ancestor(Top(t)) \in Names
      BY Zenon, <1>1, <1>2, <1>6, FileTypes
    <3> QED
      BY Zenon, <1>1, <1>2, <1>3, <1>6, <3>1, PushControls DEF RequestOf, IsArray
  <2>2. pc'[t] = "start" /\ Below(t)' = Below(t) \cup {n}
    BY Zenon, <1>1, <1>2, <2>1, MovedNames DEF Pushes
  <2>3. MonitorInv'
    <3>1. stack'[t] # stack[t] /\ ~Pops(t)
      BY Zenon, <1>2, <2>1, Popless
    <3> QED
      BY Zenon, <1>2, <1>3, <3>1, MonitorKept
  <2>4. FilesOf(t)'
    <3>1. PICK m : m = Top(t)'
      BY Zenon
    <3>2. FilesAt(pc'[t], m)
      BY Zenon, <2>2 DEF FilesAt, Failing
    <3> QED
      BY Zenon, <1>2, <3>1, <3>2, FilesMove
  <2>5. AloneOf(t)'
    BY Zenon, <2>1, <2>2 DEF AloneOf
  <2>6. Shrinks(t, n)
    BY Zenon, <1>1, <1>2, <1>3, <2>1, <2>2
       DEF Shrinks, Engaged, Defining, Pursues, EngagedLabels, DefineLabels
  <2>7. Quiet(t, n)
    BY Zenon, <1>3, <2>6 DEF Quiet, tables, Found
  <2> QED
    BY Zenon, <1>1, <1>2, <1>3, <2>3, <2>4, <2>5, <2>7, QuietLoad
<1> QED
  BY Zenon, <1>1, <1>4, <1>5, <1>6 DEF NewClass

\* A new request after a failure keeps LoadInv.
LEMMA AgainLoad ==
    ASSUME Steady, NEW t \in Threads, Again(t)
    PROVE  LoadInv'
<1>1. PICK n \in Names : n = Top(t)
  BY Zenon, SteadyFacts
<1>2. TypeInv /\ Framed(t) /\ MonitorInv /\ RequestInv
  BY Zenon, SteadyFacts, SameLoad, AgainRequest
<1>3. scenario.job[t].entry \in {"start", "done"}
  BY Zenon, <1>2, FileTypes DEF Steady, Unforced
<1>4. /\ stack'[t] = stack[t] /\ exn'[t] # "linkage" /\ "inserted" \notin broken'
      /\ tables' = tables /\ loading' = loading /\ monitor' = monitor
      /\ pc[t] = "done" /\ pc'[t] \in {"start", "done"}
  BY Zenon, <1>2, <1>3, SameLoad, GotoShape, RaiseExcepts DEF Again, tables, Labels
<1>5. MonitorInv'
  BY Zenon, <1>2, <1>4, MonitorKept DEF HeldLabels
<1>6. FilesAt(pc'[t], n)
  BY Zenon, <1>4 DEF FilesAt, Failing
<1> QED
  BY Zenon, <1>1, <1>2, <1>4, <1>5, <1>6, LabelLoad
     DEF EngagedLabels, DefineLabels, PursueLabels, Failing

\* LoadClass returns: a class the table of initiated classes has, or that the parent has.
LEMMA LoadClassLoad ==
    ASSUME Steady, NEW t \in Threads, LoadClass(t)
    PROVE  LoadInv'
<1>1. PICK n \in Names : n = Top(t)
  BY Zenon, SteadyFacts
<1>2. /\ TypeInv /\ RequestOf(t) /\ FilesOf(t) /\ Framed(t) /\ MonitorInv /\ RequestInv
      /\ \/ stack'[t] = stack[t] /\ pc'[t] = "done" /\ exn' = exn
         \/ Pops(t) /\ Resumes(t, Top(t)')
  BY Zenon, SteadyFacts, SameLoad, LoadClassRequest
<1>3. /\ "inserted" \notin broken' /\ loadedClasses' = loadedClasses /\ loading' = loading
      /\ monitor' = monitor /\ pc[t] = "record" /\ exn'[t] # "linkage" /\ n \in initiatedClasses'
      /\ Found(n) \/ Delegated(n)
  BY Zenon, <1>1, <1>2, SameLoad DEF LoadClass, RequestOf, Resumes, Foreign
<1>4. MonitorInv'
  <2>1. pc[t] \notin HeldLabels /\ (stack'[t] = stack[t] => pc'[t] \notin HeldLabels)
    BY Zenon, <1>2, <1>3, Popless DEF HeldLabels
  <2> QED
    BY Zenon, <1>2, <1>3, <2>1, MonitorKept
<1>5. FilesOf(t)' /\ pc'[t] # "define"
  <2>1. CASE stack'[t] = stack[t] /\ pc'[t] = "done"
    <3>1. Top(t)' = n /\ FilesAt(pc'[t], n)
      BY Zenon, <1>1, <2>1 DEF Top, FilesAt, Failing
    <3> QED
      BY Zenon, <1>2, <2>1, <3>1, FilesMove
  <2>2. CASE Pops(t)
    <3>1. PICK m : m = Top(t)'
      BY Zenon
    <3>2. m \in Names /\ n = Ancestor(m) /\ Fate(m) \in {"fine", "array"}
      BY Zenon, <1>1, <1>2, <2>2, <3>1, PoppedFile
    <3>3. /\ \/ pc'[t] = "fail" /\ Refused(m)
             \/ pc'[t] = "delegated"
             \/ pc'[t] = "waitdef" /\ IsArray(m) /\ ~Delegated(m)
             \/ pc'[t] = "insert" /\ ~IsArray(m)
      BY Zenon, <1>2, <2>2, <3>1, Popless DEF Resumes
    <3>4. ChainOf(t)'
      BY Zenon, <1>2, ChainMoves
    <3>5. FilesAt(pc[t], Top(t))'
      <4>1. /\ \A x : /\ Fate(x)' = Fate(x) /\ IsArray(x)' = IsArray(x)
                      /\ Ancestor(x)' = Ancestor(x) /\ Delegated(x)' = Delegated(x)
            /\ Doomed' = Doomed /\ scenario' = scenario
        BY Zenon, <1>2, FilesStay DEF Framed
      <4>2. Refused(m) => m \in Doomed
        BY Zenon, <3>2, DoomedFile
      <4>3. ~IsArray(m) => ~Delegated(m)
        BY Zenon, <3>2 DEF IsArray, Delegated
      <4> QED
        BY Zenon, <1>3, <3>1, <3>2, <3>3, <4>1, <4>2, <4>3 DEF FilesAt, IsArray, Failing
    <3> QED
      BY Zenon, <3>3, <3>4, <3>5 DEF FilesOf
  <2> QED
    BY Zenon, <1>2, <2>1, <2>2
<1>6. AloneOf(t)'
  BY Zenon, <1>3, <1>5 DEF AloneOf
<1>7. Shrinks(t, n)
  <2>1. CASE stack'[t] = stack[t] /\ pc'[t] = "done"
    BY Zenon, <1>1, <1>2, <1>3, <2>1, LabelShrinks
       DEF Framed, EngagedLabels, DefineLabels, PursueLabels, Failing
  <2>2. CASE Pops(t)
    BY Zenon, <1>1, <1>2, <1>3, <1>5, <2>2, PopShrinks
       DEF Framed, EngagedLabels, DefineLabels, PursueLabels, Failing
  <2> QED
    BY Zenon, <1>2, <2>1, <2>2
<1>8. Quiet(t, n)
  <2>1. Found(n)' => Found(n) \/ Delegated(n)
    BY Zenon, <1>3
  <2> QED
    BY Zenon, <1>3, <1>7, <2>1 DEF Quiet
<1> QED
  BY Zenon, <1>1, <1>2, <1>3, <1>4, <1>5, <1>6, <1>8, QuietLoad

\* FailedLoadingClass keeps LoadInv: what it leaves in the entry is about a doomed name.
LEMMA FailedLoad ==
    ASSUME Steady, NEW t \in Threads, FailedLoadingClass(t)
    PROVE  LoadInv'
<1>1. PICK n \in Names : n = Top(t)
  BY Zenon, SteadyFacts
<1>2. /\ TypeInv /\ RequestOf(t) /\ Framed(t) /\ MonitorInv /\ RequestInv /\ FilesAt(pc[t], n)
      /\ InJava(t) <=> scenario.user /\ ~IsArray(n)
      /\ loading'[n] = Signalled(loading[n], t)
      /\ \/ /\ pc[t] = "fail" /\ InJava(t) /\ stack'[t] = stack[t] /\ pc'[t] = "throw"
         \/ /\ pc[t] = "refail" \/ (pc[t] = "fail" /\ ~InJava(t))
            /\ \/ Len(stack[t]) = 1 /\ stack'[t] = stack[t] /\ pc'[t] = "done"
               \/ Pops(t) /\ pc'[t] = "fail"
  BY Zenon, <1>1, SteadyFacts, SameLoad, FailedRequestStep
<1>3. /\ "inserted" \notin broken' /\ tables' = tables /\ monitor' = monitor
      /\ exn'[t] # "linkage" /\ n \in Doomed /\ Found(n)' = Found(n)
  BY Zenon, <1>2, SameLoad DEF FailedLoadingClass, tables, FilesAt, Failing, Found
<1>4. /\ FilesOf(t)' /\ AloneOf(t)'
      /\ Defining(t, n)' => Defining(t, n)
      /\ ~Engaged(t, n)'
  BY Zenon, <1>1, <1>2, <1>3, FailedMoves
<1>5. EntryOf(n)'
  BY Zenon, <1>1, <1>2, <1>3, <1>4, SignalledEntry
<1>6. MonitorInv'
  <2>1. /\ stack'[t] = stack[t] => IsArray(Top(t)) \/ ~scenario.user
                                   \/ (pc[t] \in HeldLabels <=> pc'[t] \in HeldLabels)
        /\ Pops(t) => IsArray(Top(t)) \/ ~scenario.user \/ pc[t] \notin HeldLabels
    BY Zenon, <1>1, <1>2, Popless DEF HeldLabels
  <2> QED
    BY Zenon, <1>2, <1>3, <2>1, MonitorKept
<1> QED
  BY Zenon, <1>1, <1>2, <1>3, <1>4, <1>5, <1>6, LoadKept

\* SuccessLoadingClass keeps LoadInv.
LEMMA SuccessLoad ==
    ASSUME Steady, NEW t \in Threads, SuccessLoadingClass(t)
    PROVE  LoadInv'
<1>1. PICK n \in Names : n = Top(t)
  BY Zenon, SteadyFacts
<1>2. /\ TypeInv /\ RequestOf(t) /\ Framed(t) /\ MonitorInv /\ RequestInv /\ FilesOf(t)
      /\ InJava(t) <=> scenario.user /\ ~IsArray(n)
      /\ ~Direct(t) /\ stack[t] # <<>> /\ stack'[t] = stack[t] /\ Top(t)' = n
      /\ loading'[n] = Signalled(loading[n], t)
      /\ \A m : IsArray(m)' = IsArray(m)
  BY Zenon, <1>1, SteadyFacts, SameLoad, SuccessRequest, FilesStay DEF Framed
<1>3. /\ "inserted" \notin broken' /\ tables' = tables /\ monitor' = monitor
      /\ exn'[t] # "linkage" /\ Found(n)' = Found(n)
      /\ Found(n) \/ Delegated(n)
  BY Zenon, <1>1, <1>2, SameLoad DEF SuccessLoadingClass, tables, RequestOf, Found, Foreign
<1>4. \/ pc[t] = "success" /\ pc'[t] = "leave" /\ scenario.user /\ ~IsArray(n)
      \/ pc[t] = "success" /\ pc'[t] = "record" /\ (IsArray(n) \/ ~scenario.user)
      \/ pc[t] = "delegated" /\ pc'[t] = "record"
  <2>1. PICK l \in {"leave", "record"} :
            /\ Goto(t, l)
            /\ \/ pc[t] = "success" /\ l = (IF InJava(t) THEN "leave" ELSE "record")
               \/ pc[t] = "delegated" /\ l = "record"
    BY Zenon, <1>2 DEF SuccessLoadingClass, DefineClassOf
  <2>2. pc'[t] = l
    BY Zenon, <1>2, <2>1, GotoShape DEF Labels
  <2> QED
    BY Zenon, <1>2, <2>1, <2>2
<1>5. FilesOf(t)' /\ AloneOf(t)'
  <2>1. FilesAt(pc'[t], n)
    BY Zenon, <1>4 DEF FilesAt, Failing
  <2> QED
    BY Zenon, <1>2, <1>3, <1>4, <2>1, FilesMove DEF AloneOf
<1>6. /\ Defining(t, n)' => Defining(t, n)
      /\ ~Engaged(t, n)'
  <2>1. Below(t)' = Below(t)
    BY Zenon, <1>2, MovedNames
  <2>2. ~(n \in Below(t) /\ IsArray(n))
    <3>1. \A m : m \notin {}
      OBVIOUS
    <3> QED
      BY Zenon, <1>1, <1>2, <3>1, ArrayAlone
  <2> QED
    BY Zenon, <1>2, <1>4, <2>1, <2>2 DEF Defining, Engaged, EngagedLabels, DefineLabels
<1>7. EntryOf(n)'
  BY Zenon, <1>1, <1>2, <1>3, <1>6, SignalledEntry
<1>8. MonitorInv'
  <2>1. IsArray(Top(t)) \/ ~scenario.user \/ (pc[t] \in HeldLabels <=> pc'[t] \in HeldLabels)
    BY Zenon, <1>1, <1>4 DEF HeldLabels
  <2>2. ~Pops(t)
    BY Zenon, <1>2, Popless
  <2> QED
    BY Zenon, <1>2, <1>3, <2>1, <2>2, MonitorKept
<1> QED
  BY Zenon, <1>1, <1>2, <1>3, <1>5, <1>7, <1>8, LoadKept

\* InsertClass: no other thread is past the search for the class, for it would own the
\* monitor of the loader, or be the definer.
LEMMA RegisteredLoad ==
    ASSUME Steady, NEW t \in Threads, InsertClass(t), ~Refused(Top(t))
    PROVE  LoadInv'
<1>1. PICK n \in Names : n = Top(t)
  BY Zenon, SteadyFacts
<1>2. /\ TypeInv /\ RequestOf(t) /\ Framed(t) /\ MonitorInv /\ RequestInv /\ FilesAt(pc[t], n)
      /\ stack[t] # <<>>
  BY Zenon, <1>1, SteadyFacts, SameLoad, InsertClassRequest
<1>3. /\ ~Found(n) /\ n \notin Doomed
      /\ \A u \in Threads \ {t} : Engaged(u, n) => scenario.user
  BY Zenon, <1>1, Inserting DEF InsertClass
<1>4. /\ "inserted" \notin broken' /\ loading' = loading /\ monitor' = monitor
      /\ exn'[t] # "linkage" /\ n \in loadedClasses' /\ stack'[t] = stack[t] /\ Top(t)' = n
      /\ pc[t] = "insert" /\ pc'[t] = "success" /\ Fate(n) \in {"fine", "array"}
  <2>1. broken' = broken /\ Goto(t, "success") /\ Fate(n) \in {"fine", "array"}
    BY Zenon, <1>1, <1>2, <1>3 DEF InsertClass, Expect, FilesAt
  <2> QED
    BY Zenon, <1>1, <1>2, <2>1, SameLoad, GotoShape DEF InsertClass, Labels, Top
<1>5. FilesOf(t)' /\ AloneOf(t)'
  <2>1. FilesAt(pc'[t], n)
    BY Zenon, <1>4 DEF FilesAt, Failing
  <2> QED
    BY Zenon, <1>2, <1>4, <2>1, FilesMove DEF AloneOf
<1>6. EntryOf(n)'
  BY Zenon, <1>1, <1>2, <1>4, InsertedEntry
<1>7. MonitorInv'
  <2>1. pc[t] \in HeldLabels /\ pc'[t] \in HeldLabels /\ ~Pops(t)
    BY Zenon, <1>2, <1>4, Popless DEF HeldLabels
  <2> QED
    BY Zenon, <1>2, <1>4, <2>1, MonitorKept
<1>8. ASSUME NEW u \in Threads \ {t}, pc[u] = "define", Top(u) = n PROVE FALSE
  <2>1. scenario.user /\ ~IsArray(n)
    BY Zenon, <1>3, <1>8, SameLoad DEF Engaged, EngagedLabels, FilesAt, IsArray
  <2>2. ASSUME NEW v \in Threads, Top(v) = n, pc[v] \in HeldLabels PROVE monitor.owner = v
    <3>1. Cardinality(Calls(v)) > 0
      BY Zenon, <1>2, <2>1, <2>2, SteadyFacts, InnerCall
    <3>2. Cardinality(Calls(v)) = IF monitor.owner = v THEN monitor.depth ELSE 0
      BY Zenon, <1>2, <2>1 DEF MonitorInv
    <3>3. ~(0 > 0)
      OBVIOUS
    <3> QED
      BY Zenon, <3>1, <3>2, <3>3
  <2> QED
    BY Zenon, <1>1, <1>4, <1>8, <2>2 DEF HeldLabels
<1> QED
  BY Zenon, <1>1, <1>2, <1>4, <1>5, <1>6, <1>7, <1>8, LoadKept

\* InsertClass keeps LoadInv: a class it does not register is doomed.
LEMMA InsertClassLoad ==
    ASSUME Steady, NEW t \in Threads, InsertClass(t)
    PROVE  LoadInv'
<1>1. PICK n \in Names : n = Top(t)
  BY Zenon, SteadyFacts
<1>2. CASE ~Refused(n)
  BY Zenon, <1>1, <1>2, RegisteredLoad
<1>3. CASE Refused(n)
  <2>1. TypeInv /\ RequestOf(t) /\ Framed(t) /\ MonitorInv /\ RequestInv
    BY Zenon, SteadyFacts, SameLoad, InsertClassRequest
  <2>2. /\ Raise(t, "refused") /\ Goto(t, "fail") /\ pc[t] = "insert" /\ stack' = stack
        /\ tables' = tables /\ loading' = loading /\ monitor' = monitor /\ broken' = broken
    BY Zenon, <1>1, <1>3 DEF InsertClass
  <2>3. /\ pc'[t] = "fail" /\ stack'[t] = stack[t] /\ exn'[t] # "linkage" /\ n \in Doomed
        /\ "inserted" \notin broken'
    BY Zenon, <1>3, <2>1, <2>2, SameLoad, GotoShape, RaiseExcepts, DoomedFile DEF Labels, Failing
  <2>4. MonitorInv'
    <3>1. pc[t] \in HeldLabels /\ pc'[t] \in HeldLabels /\ ~Pops(t)
      BY Zenon, <2>1, <2>2, <2>3, Popless DEF HeldLabels
    <3> QED
      BY Zenon, <2>1, <2>2, <2>3, <3>1, MonitorKept
  <2>5. FilesAt(pc'[t], n)
    BY Zenon, <2>3 DEF FilesAt
  <2> QED
    BY Zenon, <1>1, <2>1, <2>2, <2>3, <2>4, <2>5, LabelLoad
       DEF EngagedLabels, DefineLabels, PursueLabels, Failing
<1> QED
  BY Zenon, <1>2, <1>3

\* WaitDefinition after it has called StartLoadingClass.
LEMMA UnderLockLoad ==
    ASSUME Steady, NEW t \in Threads, Framed(t), StartedUnderLock(t), tables' = tables,
           monitor' = monitor, "inserted" \notin broken',
           \/ pc[t] = "waitdef" /\ (Top(t) \in loadedClasses \/ loading[Top(t)] = NoEntry)
           \/ pc[t] = "wdspin" /\ (loading[Top(t)] # NoEntry => loading[Top(t)].signalled)
    PROVE  LoadInv'
<1>1. PICK n \in Names : n = Top(t)
  BY Zenon, SteadyFacts
<1>2. /\ TypeInv /\ RequestOf(t) /\ MonitorInv /\ RequestInv /\ FilesAt(pc[t], n) /\ ListOf(n)
      /\ InJava(t) <=> scenario.user /\ ~IsArray(n)
      /\ ~Direct(t) /\ loading[n] \in Entries \cup {NoEntry}
      /\ exn[t] # "linkage" /\ pc[t] \in {"waitdef", "wdspin"}
  BY Zenon, <1>1, SteadyFacts, SameLoad
<1>3. /\ Found(n) => Listed(t, n) /\ scenario.user /\ n \in loadedClasses
      /\ ~Found(n) => n \in Doomed
      /\ ~Delegated(n)
      /\ Found(n)' = Found(n)
  BY Zenon, <1>1, <1>2, UnderLockFile, WaitingFile DEF Found, tables
<1>4. pc[t] \in HeldLabels /\ (stack'[t] = stack[t] => ~Pops(t) /\ Top(t)' = n)
  BY Zenon, <1>1, <1>2, Popless DEF HeldLabels, Top
<1>5. CASE /\ Found(n) /\ Listed(t, n) /\ loading'[n] = Kept(RemoveWaitingThread(loading[n], t))
           /\ stack'[t] = stack[t] /\ exn' = exn
           /\ pc'[t] = IF InJava(t) THEN "leave" ELSE IF Direct(t) THEN "done" ELSE "record"
  <2>1. pc'[t] = IF scenario.user /\ ~IsArray(n) THEN "leave" ELSE "record"
    BY Zenon, <1>2, <1>5
  <2>2. EntryOf(n)'
    BY Zenon, <1>1, <1>3, <1>5, <2>1, ReleasedEntry
  <2>3. FilesAt(pc'[t], n)
    BY Zenon, <2>1 DEF FilesAt, Failing
  <2>4. FilesOf(t)' /\ AloneOf(t)'
    BY Zenon, <1>2, <1>4, <1>5, <2>1, <2>3, FilesMove DEF AloneOf
  <2>5. MonitorInv'
    <3>1. scenario.user => IsArray(Top(t)) \/ pc'[t] \in HeldLabels
      BY Zenon, <1>1, <2>1 DEF HeldLabels
    <3> QED
      BY Zenon, <1>2, <1>4, <1>5, <3>1, MonitorKept
  <2> QED
    BY Zenon, <1>1, <1>3, <2>2, <2>4, <2>5, LoadKept
<1>6. CASE /\ Waits(t, n) /\ loading'[n] = AddWaitingThread(loading[n], t)
           /\ stack'[t] = stack[t] /\ exn' = exn /\ pc'[t] = "heldspin"
  <2>1. /\ ~scenario.user /\ ~Found(n) /\ loading[n] # NoEntry
        /\ t # loading[n].initiator /\ ~Initiator(t, n) /\ ~DefineOwner(t, n)
    BY Zenon, <1>6 DEF Waits, Registers, Collides, Recurs, Initiator, DefineOwner
  <2>2. PICK e \in Entries : e = loading[n] /\ e.initiator \notin e.waiting /\ t # e.initiator
    BY Zenon, <1>2, <2>1 DEF ListOf
  <2>3. LET x == AddWaitingThread(e, t) IN
        /\ Passes(e, x, t) /\ x \in Entries /\ x.waiting = e.waiting \cup {t}
        /\ x.initiator = e.initiator /\ x.definer = e.definer /\ x.signalled = e.signalled
    BY Zenon, <2>2, AddPasses
  <2>4. /\ loading'[n] # NoEntry /\ loading'[n].waiting = loading[n].waiting \cup {t}
        /\ loading'[n].initiator = loading[n].initiator
        /\ loading'[n].definer = loading[n].definer
        /\ loading'[n].signalled = loading[n].signalled
    BY Zenon, <1>6, <2>2, <2>3, NothingAssumption
  <2>5. Defining(t, n)' => Defining(t, n)
    <3>1. Below(t)' = Below(t) /\ IsArray(n)' = IsArray(n)
      BY Zenon, <1>2, <1>6, MovedNames, FilesStay DEF Framed
    <3> QED
      BY Zenon, <1>6, <3>1 DEF Defining, DefineLabels
  <2>6. EntryOf(n)'
    BY Zenon, <1>1, <1>3, <2>1, <2>4, <2>5, JoinedEntry
  <2>7. FilesAt(pc'[t], n)
    BY Zenon, <1>2, <1>6 DEF FilesAt, Failing, IsArray
  <2>8. FilesOf(t)' /\ AloneOf(t)'
    BY Zenon, <1>2, <1>4, <1>6, <2>7, FilesMove DEF AloneOf
  <2>9. MonitorInv'
    BY Zenon, <1>2, <2>1, MonitorKept
  <2> QED
    BY Zenon, <1>1, <1>3, <2>6, <2>8, <2>9, LoadKept
<1>7. CASE /\ ~Found(n) /\ Becomes(t, StartEntry(t, n), Recurs(t, n))
           /\ IF Recurs(t, n) THEN exn'[t] = "circularity" ELSE exn' = exn
  <2>1. PICK e : e = StartEntry(t, n)
    BY Zenon
  <2>2. Recurs(t, n) \in BOOLEAN /\ exn'[t] # "linkage"
    BY Zenon, <1>2, <1>7 DEF Recurs
  <2>3. Becomes(t, e, Recurs(t, n))
    BY Zenon, <1>7, <2>1
  <2>4. EntryOf(n)'
    <3>1. /\ Passes(loading[n], e, t)
          /\ \A u \in Threads \ {t} : scenario.user /\ Initiator(u, n) =>
                 e # NoEntry /\ u \in e.waiting \cup {e.initiator}
          /\ Recurs(t, n) /\ e # NoEntry => e.initiator = NoThread
      BY Zenon, <1>1, <1>7, <2>1, StartedEntry
    <3> QED
      BY Zenon, <1>1, <1>3, <1>7, <2>2, <2>3, <3>1, DoomedEntry
  <2>5. \/ stack'[t] = stack[t] /\ pc'[t] \in {"crash", "new"}
        \/ stack'[t] = stack[t] /\ pc'[t] = "throw" /\ InJava(t)
        \/ stack'[t] = stack[t] /\ pc'[t] = "done" /\ ~InJava(t)
        \/ Pops(t) /\ pc'[t] = "fail" /\ ~InJava(t)
    BY Zenon, <2>3 DEF Becomes
  <2>6. FilesOf(t)' /\ AloneOf(t)'
    <3>1. CASE stack'[t] = stack[t] /\ pc'[t] \in {"crash", "new"}
      <4>1. FilesAt(pc'[t], n)
        BY Zenon, <1>2, <3>1 DEF FilesAt, Failing, IsArray
      <4> QED
        BY Zenon, <1>4, <2>2, <3>1, <4>1, FilesMove DEF AloneOf
    <3>2. CASE ~(stack'[t] = stack[t] /\ pc'[t] \in {"crash", "new"})
      BY Zenon, <1>1, <1>3, <1>7, <2>2, <2>5, <3>2, FailedMoves
    <3> QED
      BY Zenon, <3>1, <3>2
  <2>7. MonitorInv'
    <3>1. /\ scenario.user /\ stack'[t] = stack[t] => IsArray(Top(t)) \/ pc'[t] \in HeldLabels
          /\ scenario.user /\ Pops(t) => IsArray(Top(t))
      BY Zenon, <1>1, <1>2, <1>4, <2>5 DEF HeldLabels
    <3> QED
      BY Zenon, <1>2, <1>4, <3>1, MonitorKept
  <2> QED
    BY Zenon, <1>1, <1>3, <2>4, <2>6, <2>7, LoadKept
<1> QED
  BY Zenon, <1>1, <1>3, <1>5, <1>6, <1>7 DEF StartedUnderLock

\* WaitDefinition keeps LoadInv: it makes a second definer only of a doomed name.
LEMMA WaitDefinitionLoad ==
    ASSUME Steady, NEW t \in Threads, WaitDefinition(t)
    PROVE  LoadInv'
<1>1. PICK n \in Names : n = Top(t)
  BY Zenon, SteadyFacts
<1>2. /\ TypeInv /\ RequestOf(t) /\ Framed(t) /\ MonitorInv /\ RequestInv /\ FilesAt(pc[t], n)
      /\ exn[t] # "linkage"
      /\ \/ /\ n \notin loadedClasses /\ loading[n] # NoEntry
            /\ loading[n].definer = NoThread /\ exn' = exn
            /\ Becomes(t, loading[n], FALSE)
         \/ /\ n \notin loadedClasses /\ loading[n] # NoEntry
            /\ loading[n].definer # NoThread /\ loading' = loading /\ exn' = exn
            /\ pc'[t] = "wdspin" /\ stack'[t] = stack[t] /\ Top(t)' = n
         \/ /\ n \in loadedClasses \/ loading[n] = NoEntry
            /\ StartedUnderLock(t)
  BY Zenon, <1>1, SteadyFacts, SameLoad, WaitDefinitionRequest
<1>3. /\ "inserted" \notin broken' /\ tables' = tables /\ monitor' = monitor
      /\ pc[t] = "waitdef" /\ Found(n)' = Found(n)
  <2>1. broken' \subseteq broken \cup {"loading", "owner", "waiter"}
    BY Zenon DEF WaitDefinition, StartUnderLock, BecomeDefiner, Expect
  <2> QED
    BY Zenon, <2>1, SameLoad DEF WaitDefinition, tables, Found
<1>4. CASE /\ n \notin loadedClasses /\ loading[n] # NoEntry
           /\ loading[n].definer = NoThread /\ exn' = exn
           /\ Becomes(t, loading[n], FALSE)
  <2>1. /\ pc'[t] = "new" /\ stack'[t] = stack[t]
        /\ loading'[n] = ChangeDefinerAndInitiator(loading[n], t)
    BY Zenon, <1>1, <1>4 DEF Becomes
  <2>2. EntryOf(n)'
    BY Zenon, <1>1, <1>2, <1>3, <1>4, <2>1, DefinerEntry
  <2>3. FilesAt(pc'[t], n) /\ Top(t)' = n
    BY Zenon, <1>1, <1>2, <1>3, <2>1 DEF FilesAt, Failing, IsArray, Top
  <2>4. FilesOf(t)' /\ AloneOf(t)'
    BY Zenon, <1>2, <1>4, <2>1, <2>3, FilesMove DEF AloneOf
  <2>5. MonitorInv'
    <3>1. pc[t] \in HeldLabels /\ pc'[t] \in HeldLabels /\ ~Pops(t)
      BY Zenon, <1>2, <1>3, <2>1, Popless DEF HeldLabels
    <3> QED
      BY Zenon, <1>2, <1>3, <3>1, MonitorKept
  <2> QED
    BY Zenon, <1>1, <1>2, <1>3, <2>2, <2>4, <2>5, LoadKept
<1>5. CASE loading' = loading /\ exn' = exn /\ pc'[t] = "wdspin" /\ stack'[t] = stack[t]
  <2>1. MonitorInv'
    <3>1. pc[t] \in HeldLabels /\ pc'[t] \in HeldLabels /\ ~Pops(t)
      BY Zenon, <1>2, <1>3, <1>5, Popless DEF HeldLabels
    <3> QED
      BY Zenon, <1>2, <1>3, <3>1, MonitorKept
  <2>2. FilesAt(pc'[t], n)
    BY Zenon, <1>2, <1>3, <1>5 DEF FilesAt, Failing, IsArray
  <2> QED
    BY Zenon, <1>1, <1>2, <1>3, <1>5, <2>1, <2>2, LabelLoad
       DEF EngagedLabels, DefineLabels, PursueLabels, Failing
<1>6. CASE (n \in loadedClasses \/ loading[n] = NoEntry) /\ StartedUnderLock(t)
  BY Zenon, <1>1, <1>2, <1>3, <1>6, UnderLockLoad
<1> QED
  BY Zenon, <1>2, <1>4, <1>5, <1>6

\* WaitDefinition after its wait keeps LoadInv.
LEMMA WaitedLoad ==
    ASSUME Steady, NEW t \in Threads, WaitedDefinition(t)
    PROVE  LoadInv'
<1>1. /\ tables' = tables /\ monitor' = monitor /\ pc[t] = "wdspin"
      /\ loading[Top(t)] # NoEntry => loading[Top(t)].signalled
  BY Zenon DEF WaitedDefinition, tables
<1>2. "inserted" \notin broken'
  <2>1. broken' \subseteq broken \cup {"loading", "owner"}
    BY Zenon DEF WaitedDefinition, StartUnderLock, BecomeDefiner, Expect
  <2> QED
    BY Zenon, <2>1, SameLoad
<1> QED
  BY Zenon, <1>1, <1>2, SameLoad, WaitedRequest, UnderLockLoad

\* StartLoadingClass keeps LoadInv.
LEMMA StartLoad ==
    ASSUME Steady, NEW t \in Threads, StartLoadingClass(t)
    PROVE  LoadInv'
<1>1. PICK n \in Names : n = Top(t)
  BY Zenon, SteadyFacts
<1>2. /\ TypeInv /\ RequestOf(t) /\ Framed(t) /\ MonitorInv /\ RequestInv /\ ListOf(n)
      /\ loading[n] \in Entries \cup {NoEntry} /\ exn[t] # "linkage"
      /\ loading'[n] = StartEntry(t, n)
      /\ \/ /\ ~Recurs(t, n) /\ stack'[t] = stack[t] /\ Top(t)' = n /\ exn' = exn
            /\ \/ Found(n) /\ pc'[t] = "record"
               \/ Waits(t, n) /\ pc'[t] = "spin"
               \/ /\ ~Found(n) /\ ~Waits(t, n)
                  /\ pc'[t] = IF IsArray(n) THEN "array"
                              ELSE IF scenario.user THEN "java" ELSE "read"
         \/ /\ Recurs(t, n) /\ exn'[t] = "circularity"
            /\ \/ Len(stack[t]) = 1 /\ stack'[t] = stack[t] /\ pc'[t] = "done"
               \/ Pops(t) /\ pc'[t] = "fail"
  BY Zenon, <1>1, SteadyFacts, SameLoad, StartRequest
<1>3. /\ "inserted" \notin broken' /\ tables' = tables /\ monitor' = monitor
      /\ pc[t] = "start" /\ Found(n)' = Found(n)
  BY Zenon, SameLoad DEF StartLoadingClass, Expect, tables, Found
<1>4. MonitorInv'
  <2>1. pc[t] \notin HeldLabels /\ (stack'[t] = stack[t] => pc'[t] \notin HeldLabels)
    BY Zenon, <1>2, <1>3, Popless DEF HeldLabels
  <2> QED
    BY Zenon, <1>2, <1>3, <2>1, MonitorKept
<1>5. CASE Recurs(t, n)
  <2>1. /\ n \in Doomed /\ exn'[t] # "linkage" /\ loading'[n] = Signalled(loading[n], t)
        /\ \/ stack'[t] = stack[t] /\ pc'[t] = "done"
           \/ Pops(t) /\ pc'[t] = "fail"
    BY Zenon, <1>1, <1>2, <1>3, <1>5, RecursDoomed, StartCases
  <2>2. /\ FilesOf(t)' /\ AloneOf(t)'
        /\ Defining(t, n)' => Defining(t, n)
        /\ ~Engaged(t, n)'
    BY Zenon, <1>1, <1>2, <2>1, FailedMoves
  <2>3. EntryOf(n)'
    BY Zenon, <1>1, <1>2, <1>3, <2>1, <2>2, SignalledEntry
  <2> QED
    BY Zenon, <1>1, <1>2, <1>3, <1>4, <2>2, <2>3, LoadKept
<1>6. CASE ~Recurs(t, n)
  <2>1. /\ stack'[t] = stack[t] /\ Top(t)' = n /\ exn' = exn /\ pc'[t] # "define"
        /\ FilesAt(pc'[t], n)
    BY Zenon, <1>2, <1>6 DEF FilesAt, Failing
  <2>2. FilesOf(t)' /\ AloneOf(t)'
    BY Zenon, <1>2, <2>1, FilesMove DEF AloneOf
  <2>3. CASE Found(n) /\ pc'[t] = "record"
    <3>1. Shrinks(t, n)
      BY Zenon, <1>1, <1>2, <1>3, <2>1, <2>3, LabelShrinks
         DEF Framed, EngagedLabels, DefineLabels, PursueLabels, Failing
    <3>2. Quiet(t, n)
      BY Zenon, <1>2, <1>3, <2>3, <3>1, StartCases DEF Quiet, tables
    <3> QED
      BY Zenon, <1>1, <1>2, <1>3, <1>4, <2>2, <3>2, QuietLoad
  <2>4. CASE Waits(t, n) /\ pc'[t] = "spin"
    <3>1. /\ ~Found(n) /\ loading[n] # NoEntry /\ Registers(t, n)
          /\ t # loading[n].initiator /\ ~Initiator(t, n) /\ ~DefineOwner(t, n)
      BY Zenon, <2>4 DEF Waits, Registers, Collides, Recurs, Initiator, DefineOwner
    <3>2. PICK e \in Entries : e = loading[n] /\ e.initiator \notin e.waiting /\ t # e.initiator
      BY Zenon, <1>2, <3>1 DEF ListOf
    <3>3. LET y == AddWaitingThread(e, t) IN
          /\ Passes(e, y, t) /\ y \in Entries /\ y.waiting = e.waiting \cup {t}
          /\ y.initiator = e.initiator /\ y.definer = e.definer /\ y.signalled = e.signalled
      BY Zenon, <3>2, AddPasses
    <3>4. loading'[n] = AddWaitingThread(e, t)
      BY Zenon, <1>2, <3>1, <3>2, StartCases
    <3>5. /\ loading'[n] # NoEntry /\ loading'[n].waiting = loading[n].waiting \cup {t}
          /\ loading'[n].initiator = loading[n].initiator
          /\ loading'[n].definer = loading[n].definer
          /\ loading'[n].signalled = loading[n].signalled
      BY Zenon, <3>2, <3>3, <3>4, NothingAssumption
    <3>6. (Defining(t, n)' => Defining(t, n)) /\ (Engaged(t, n)' => Engaged(t, n))
      <4>1. Below(t)' = Below(t) /\ IsArray(n)' = IsArray(n)
        BY Zenon, <1>2, <2>1, MovedNames, FilesStay DEF Framed
      <4> QED
        BY Zenon, <2>4, <4>1 DEF Defining, DefineLabels, Engaged, EngagedLabels
    <3>7. EntryOf(n)'
      BY Zenon, <1>1, <1>2, <1>3, <2>1, <2>4, <3>1, <3>5, <3>6, JoinedEntry
    <3> QED
      BY Zenon, <1>1, <1>2, <1>3, <1>4, <2>2, <3>7, LoadKept
  <2>5. CASE ~Found(n) /\ ~Waits(t, n) /\ pc'[t] \in {"array", "java", "read"}
    <3>1. EntryOf(n)'
      BY Zenon, <1>1, <1>2, <1>3, <1>6, <2>1, <2>5, SearchEntry
    <3> QED
      BY Zenon, <1>1, <1>2, <1>3, <1>4, <2>2, <3>1, LoadKept
  <2> QED
    BY Zenon, <1>2, <1>6, <2>3, <2>4, <2>5
<1> QED
  BY Zenon, <1>5, <1>6

\* The second invariant, which holds unless somebody calls JNI DefineClass.
LEMMA SameStateLoad ==
    ASSUME LoadInv, UNCHANGED vars
    PROVE  LoadInv'
<1>1. /\ scenario' = scenario /\ loadedClasses' = loadedClasses /\ loading' = loading
      /\ initiatedClasses' = initiatedClasses /\ monitor' = monitor /\ pc' = pc
      /\ stack' = stack /\ exn' = exn /\ broken' = broken
  BY Zenon DEF vars, tables
<1>2. /\ \A n : /\ Fate(n)' = Fate(n) /\ Ancestor(n)' = Ancestor(n)
                /\ IsArray(n)' = IsArray(n) /\ Delegated(n)' = Delegated(n)
      /\ Doomed' = Doomed
  BY Zenon, <1>1, FilesStay
<1>3. /\ \A t, n : /\ Listed(t, n)' = Listed(t, n) /\ Initiator(t, n)' = Initiator(t, n)
                   /\ DefineOwner(t, n)' = DefineOwner(t, n)
      /\ \A t : Top(t)' = Top(t) /\ Below(t)' = Below(t)
      /\ \A n : Found(n)' = Found(n)
  BY Zenon, <1>1 DEF Listed, Initiator, DefineOwner, Top, Below, Found
<1>4. \A t, n : /\ Engaged(t, n)' = Engaged(t, n) /\ Defining(t, n)' = Defining(t, n)
                /\ Pursues(t, n)' = Pursues(t, n)
  BY Zenon, <1>1, <1>2, <1>3 DEF Engaged, Defining, Pursues
<1>5. ASSUME NEW t \in Threads PROVE FilesOf(t)' /\ AloneOf(t)'
  <2>1. ChainOf(t)'
    BY Zenon, <1>1, <1>2 DEF LoadInv, FilesOf, ChainOf
  <2>2. FilesAt(pc[t], Top(t))'
    BY Zenon, <1>1, <1>2, <1>3 DEF LoadInv, FilesOf, FilesAt
  <2> QED
    BY Zenon, <1>1, <1>3, <2>1, <2>2 DEF LoadInv, FilesOf, AloneOf
<1>6. ASSUME NEW n \in Names PROVE EntryOf(n)'
  <2>1. OpenEntry(n)'
    BY Zenon, <1>1, <1>2, <1>3, <1>4 DEF LoadInv, EntryOf, OpenEntry
  <2>2. LoadedEntry(n)'
    BY Zenon, <1>1, <1>2, <1>3, <1>4 DEF LoadInv, EntryOf, LoadedEntry
  <2>3. AnyEntry(n)'
    BY Zenon, <1>1, <1>2, <1>3, <1>4 DEF LoadInv, EntryOf, AnyEntry
  <2> QED
    BY Zenon, <2>1, <2>2, <2>3 DEF EntryOf
<1>7. MonitorInv'
  <2>1. \A t : Calls(t)' = Calls(t)
    BY Zenon, <1>1, <1>2 DEF Calls
  <2> QED
    BY Zenon, <1>1, <2>1 DEF LoadInv, MonitorInv
<1> QED
  BY Zenon, <1>1, <1>5, <1>6, <1>7 DEF LoadInv

\* Every step keeps LoadInv if nobody calls JNI DefineClass.
LEMMA LoadInvariant ==
    ASSUME RequestInv, Unforced => LoadInv, [Next]_vars
    PROVE  (Unforced => LoadInv)'
<1>1. CASE UNCHANGED vars
  <2>1. Unforced' = Unforced
    BY Zenon, <1>1, FilesStay DEF vars
  <2> QED
    BY Zenon, <1>1, <2>1, SameStateLoad
<1>2. ASSUME NEW t \in Threads, Step(t) \/ Again(t) PROVE (Unforced => LoadInv)'
  <2>1. scenario' = scenario
    BY Zenon, <1>2 DEF Step, StartLoadingClass, WaitLoading, LoadFromFile, SetupAsArray,
       EnterLoadClass, SearchClass, LeaveLoadClass, LookupClass, WaitDefinition, WaitedDefinition,
       NewClass, InsertClass, SuccessLoadingClass, FailedLoadingClass, LoadClass, Again
  <2>2. Unforced' = Unforced
    BY Zenon, <2>1, FilesStay
  <2>3. ASSUME Unforced PROVE LoadInv'
    <3>1. Steady
      BY Zenon, <2>3 DEF Steady
    <3> QED
      BY Zenon, <1>2, <3>1, StartLoad, WaitLoadingLoad, LoadFromFileLoad, SetupAsArrayLoad,
         EnterLoad, SearchClassLoad, LeaveLoad, LookupClassLoad, WaitDefinitionLoad, WaitedLoad,
         NewClassLoad, InsertClassLoad, SuccessLoad, FailedLoad, LoadClassLoad, AgainLoad
         DEF Step
  <2> QED
    BY Zenon, <2>2, <2>3
<1> QED
  BY Zenon, <1>1, <1>2 DEF Next

\* LoadInv holds when nobody has asked for anything.
LEMMA InitLoad == Init /\ Unforced => LoadInv
<1> SUFFICES ASSUME Init, Unforced PROVE LoadInv
  BY Zenon
<1>1. RequestInv /\ TypeInv
  BY Zenon, InitRequest DEF RequestInv
<1>2. ASSUME NEW t \in Threads
      PROVE  /\ pc[t] \in {"start", "done"} /\ exn[t] = "none"
             /\ stack[t] = <<scenario.job[t].name>>
  <2>1. scenario.job[t].entry \in {"start", "done"}
    BY Zenon, <1>1, FileTypes DEF Unforced
  <2> QED
    BY Zenon, <2>1 DEF Init
<1>3. ASSUME NEW t \in Threads PROVE Len(stack[t]) = 1 /\ Below(t) = {} /\ ChainOf(t)
  <2>1. Len(stack[t]) = 1
    <3>1. \A x : Len(<<x>>) = 1
      OBVIOUS
    <3> QED
      BY Zenon, <1>2, <1>3, <3>1
  <2>2. 2..1 = {} /\ 1..(1 - 1) = {}
    OBVIOUS
  <2>3. 2..Len(stack[t]) = {} /\ 1..(Len(stack[t]) - 1) = {}
    BY Zenon, <2>1, <2>2
  <2> QED
    BY Zenon, <2>1, <2>3 DEF Below, ChainOf
<1>4. ASSUME NEW t \in Threads PROVE FilesOf(t) /\ AloneOf(t)
  BY Zenon, <1>2, <1>3, <1>4 DEF FilesOf, FilesAt, AloneOf, Failing
<1>5. ASSUME NEW n \in Names PROVE EntryOf(n)
  <2>1. loading[n] = NoEntry /\ n \notin loadedClasses
    BY Zenon DEF Init
  <2>2. \A t \in Threads :
            ~Engaged(t, n) /\ ~Defining(t, n) /\ ~Listed(t, n) /\ ~Initiator(t, n) /\ ~DefineOwner(t, n)
    BY Zenon, <1>2, <1>3, <2>1
       DEF Engaged, Defining, Listed, Initiator, DefineOwner, EngagedLabels, DefineLabels
  <2> QED
    BY Zenon, <2>1, <2>2 DEF EntryOf, OpenEntry, LoadedEntry, AnyEntry
<1>6. MonitorInv
  <2>1. monitor.owner = NoThread /\ monitor.depth = 0
    BY Zenon DEF Init
  <2>2. ASSUME NEW t \in Threads PROVE Cardinality(Calls(t)) = 0
    <3>1. \A k \in 1..1 : k = 1
      OBVIOUS
    <3>2. Calls(t) = {}
      BY Zenon, <1>2, <1>3, <2>2, <3>1 DEF Calls, HeldLabels
    <3> QED
      BY Zenon, <3>2, FS_EmptySet
  <2> QED
    BY Zenon, <2>1, <2>2, NothingAssumption DEF MonitorInv
<1>7. "inserted" \notin broken
  BY Zenon DEF Init
<1> QED
  BY Zenon, <1>4, <1>5, <1>6, <1>7 DEF LoadInv

\* However many threads load a class by name, in whatever order they run and however often a
\* load fails and is tried again, InsertClass is called for it once.
THEOREM Once == Spec => []DefinedOnce
<1>1. Init => RequestInv /\ (Unforced => LoadInv)
  BY Zenon, InitRequest, InitLoad
<1>2. RequestInv /\ (Unforced => LoadInv) /\ [Next]_vars => (RequestInv /\ (Unforced => LoadInv))'
  BY Zenon, RequestInvariant, LoadInvariant
<1>3. RequestInv /\ (Unforced => LoadInv) => DefinedOnce
  BY Zenon DEF DefinedOnce, LoadInv
<1> QED
  BY <1>1, <1>2, <1>3, PTL DEF Spec

-----------------------------------------------------------------------------
(* Undisturbed: a definer defines its class, or has failed and does not come back. *)

Calm == Steady /\ Undisturbed /\ OrderInv

\* The class files of what waits for an ancestor.
LEMMA BelowFile ==
    ASSUME TypeInv, NEW t \in Threads, stack[t] # <<>>, FilesOf(t), NEW n \in Below(t)
    PROVE  Fate(n) \in {"fine", "array"}
<1>1. Len(stack[t]) \in Nat
  BY Zenon, TopType
<1>2. PICK i \in 2..Len(stack[t]) : n = stack[t][i]
  BY Zenon DEF Below
<1>3. PICK j : j = i - 1
  BY Zenon
<1>4. j \in 1..(Len(stack[t]) - 1) /\ j + 1 = i
  BY <1>1, <1>2, <1>3
<1> QED
  BY Zenon, <1>2, <1>4 DEF FilesOf, ChainOf

\* If every class found can be defined, so can the one that is being defined.
LEMMA DefiningFine ==
    ASSUME Steady, WellFormed, NEW t \in Threads, NEW n \in Names, Defining(t, n)
    PROVE  n \notin Doomed
<1>1. TypeInv /\ stack[t] # <<>> /\ FilesOf(t) /\ FilesAt(pc[t], Top(t))
  BY Zenon, SteadyFacts DEF FilesOf
<1> SUFFICES ASSUME n \in Doomed PROVE FALSE
  BY Zenon
<1>2. Fate(n) \in {"missing", "array"}
  BY Zenon, <1>1, WellFormedDoomed
<1>3. CASE n = Top(t) /\ pc[t] = "new"
  BY Zenon, <1>2, <1>3, WaitingFile DEF IsArray, WellFormed
<1>4. CASE n = Top(t) /\ pc[t] = "insert"
  BY Zenon, <1>4, Inserting DEF WellFormed
<1>5. CASE n \in Below(t) /\ ~IsArray(n)
  BY Zenon, <1>1, <1>2, <1>5, BelowFile DEF IsArray
<1> QED
  BY Zenon, <1>3, <1>4, <1>5 DEF Defining, DefineLabels

\* Who defines a class goes on, is done, or fails with it.
LEMMA DefiningGoes ==
    ASSUME Steady, NEW t \in Threads, Framed(t), NEW n \in Names, Defining(t, n),
           NEW k \in Names, k = Top(t), pc[t] \in DefineLabels => ~Pops(t),
           pc[t] \in DefineLabels /\ stack'[t] = stack[t] =>
               pc'[t] \in DefineLabels \cup Failing \/ Found(k)'
    PROVE  Defining(t, n)' \/ Found(n)' \/ (pc'[t] \in Failing /\ Top(t)' = n)
<1>1. TypeInv /\ RequestOf(t) /\ IsArray(n)' = IsArray(n)
  BY Zenon, SteadyFacts, FilesStay DEF Framed
<1>2. CASE stack'[t] = stack[t]
  <2>1. Below(t)' = Below(t) /\ Top(t)' = Top(t)
    BY Zenon, <1>1, <1>2, MovedNames DEF Top
  <2> QED
    BY Zenon, <1>1, <1>2, <2>1 DEF Defining
<1>3. CASE Pushes(t)
  <2>1. Below(t)' = Below(t) \cup {Top(t)}
    BY Zenon, <1>1, <1>3, MovedNames
  <2> QED
    BY Zenon, <1>1, <1>3, <2>1 DEF Pushes, Defining, DefineLabels, IsArray
<1>4. CASE Pops(t)
  <2>1. Below(t) = Below(t)' \cup {Top(t)'}
    BY Zenon, <1>1, <1>4, MovedNames
  <2>2. PICK m : m = Top(t)'
    BY Zenon
  <2>3. \/ pc'[t] = "fail"
        \/ pc'[t] \in {"waitdef", "delegated"} /\ IsArray(m)'
        \/ pc'[t] = "insert"
    BY Zenon, <1>4, <2>2 DEF Pops, IsArray, Fate
  <2> QED
    BY Zenon, <1>1, <1>4, <2>1, <2>2, <2>3 DEF Defining, DefineLabels, Failing
<1> QED
  BY Zenon, <1>2, <1>3, <1>4 DEF Framed, Moves

\* What a step of t must see to.
LEMMA OrderKept ==
    ASSUME Calm, NEW t \in Threads, Framed(t), FilesOf(t)', NEW k \in Names, k = Top(t),
           \A u \in Threads \ {t} : DefineOwner(u, k)' => DefineOwner(u, k),
           DefineOwner(t, k)' => DefineOwner(t, k) \/ (stack'[t] = stack[t] /\ pc'[t] = "new"),
           pc[t] \in DefineLabels => ~Pops(t),
           pc[t] \in DefineLabels /\ stack'[t] = stack[t] =>
               pc'[t] \in DefineLabels \cup Failing \/ Found(k)',
           Gone(t) => Gone(t)',
           exn'[t] = "circularity" => exn[t] = "circularity" \/ Circular,
           pc'[t] = "wdspin" => Listed(t, Top(t))'
    PROVE  OrderInv'
<1>1. /\ Steady /\ TypeInv /\ RequestOf(t) /\ scenario' = scenario /\ Circular' = Circular
      /\ Doomed' = Doomed
  BY Zenon, SteadyFacts, FilesStay DEF Calm, Framed
<1>2. ASSUME NEW u \in Threads, pc'[u] = "wdspin" PROVE Listed(u, Top(u))'
  <2>1. CASE u = t
    BY Zenon, <1>2, <2>1
  <2>2. CASE u # t
    <3>1. PICK m \in Names : m = Top(u)
      BY Zenon, <1>1, SteadyFacts
    <3>2. pc[u] = "wdspin" /\ Top(u)' = m
      BY Zenon, <1>2, <2>2, <3>1 DEF Framed, Top
    <3>3. Listed(u, m)
      BY Zenon, <3>1, <3>2 DEF Calm, OrderInv
    <3>4. Listed(u, m)'
      BY Zenon, <1>1, <2>2, <3>3, ListedStays
    <3> QED
      BY Zenon, <3>2, <3>4 DEF Listed
  <2> QED
    BY Zenon, <2>1, <2>2
<1>3. ASSUME NEW u \in Threads, exn'[u] = "circularity" PROVE Circular
  BY Zenon, <1>3 DEF Framed, Calm, OrderInv
<1>4. ASSUME NEW u \in Threads, NEW n \in Names, DefineOwner(u, n)', ~Found(n)'
      PROVE  Defining(u, n)' \/ Gone(u)'
  <2>1. ~Found(n)
    BY Zenon, <1>4 DEF Framed, Found
  <2>2. CASE DefineOwner(u, n)
    <3>1. Defining(u, n) \/ Gone(u)
      BY Zenon, <2>1, <2>2 DEF Calm, OrderInv
    <3>2. CASE u # t
      <4>1. Defining(u, n)' = Defining(u, n)
        BY Zenon, <3>2, OthersSame
      <4> QED
        BY Zenon, <3>1, <3>2, <4>1 DEF Framed, Gone
    <3>3. CASE u = t /\ Defining(t, n)
      <4>1. SUFFICES ASSUME pc'[t] \in Failing, Top(t)' = n PROVE Gone(t)'
        BY Zenon, <1>1, <1>4, <3>3, DefiningGoes
      <4>2. n \in Doomed
        BY Zenon, <1>1, <4>1 DEF FilesOf, FilesAt
      <4>3. ~WellFormed
        BY Zenon, <1>1, <3>3, <4>2, DefiningFine
      <4> QED
        BY Zenon, <1>1, <4>1, <4>3 DEF Calm, Undisturbed, Gone
    <3> QED
      BY Zenon, <3>1, <3>2, <3>3
  <2>3. CASE ~DefineOwner(u, n)
    <3>1. n = k
      BY Zenon, <1>4, <2>3 DEF Framed, DefineOwner
    <3>2. u = t /\ stack'[t] = stack[t] /\ pc'[t] = "new"
      BY Zenon, <1>4, <2>3, <3>1
    <3> QED
      BY Zenon, <3>1, <3>2 DEF Defining, DefineLabels, Top
  <2> QED
    BY Zenon, <2>2, <2>3
<1> QED
  BY Zenon, <1>1, <1>2, <1>3, <1>4 DEF OrderInv

\* Signalling an entry makes nobody its definer.
LEMMA SignalledOwner ==
    ASSUME Steady, NEW t \in Threads, NEW k \in Names, k = Top(t),
           NEW x, x = Signalled(loading[k], t), NEW u \in Threads, x # NoEntry, x.definer = u
    PROVE  DefineOwner(u, k)
<1>1. ListOf(k) /\ loading[k] \in Entries \cup {NoEntry}
  BY Zenon, SteadyFacts
<1>2. loading[k] # NoEntry
  BY Zenon DEF Signalled
<1>3. PICK e \in Entries : e = loading[k] /\ e.initiator \notin e.waiting
  BY Zenon, <1>1, <1>2 DEF ListOf
<1>4. Signalled(e, t) # NoEntry => Signalled(e, t).definer = e.definer
  BY ZenonT(60), <1>3, SignalledShape
<1> QED
  BY Zenon, <1>2, <1>3, <1>4 DEF DefineOwner

\* StartLoadingClass makes nobody the definer.
LEMMA StartOwner ==
    ASSUME Steady, NEW t \in Threads, NEW k \in Names, k = Top(t),
           NEW x, x = StartEntry(t, k), NEW u \in Threads, x # NoEntry, x.definer = u
    PROVE  DefineOwner(u, k)
<1>1. ListOf(k) /\ loading[k] \in Entries \cup {NoEntry}
  BY Zenon, SteadyFacts
<1>2. CASE x = loading[k]
  BY Zenon, <1>2 DEF DefineOwner
<1>3. CASE Recurs(t, k)
  BY Zenon, <1>3, StartCases, SignalledOwner
<1>4. CASE ~Found(k) /\ loading[k] = NoEntry
  <2>1. x.definer = NoThread
    <3>1. NewEntry(t).definer = NoThread
      BY DEF NewEntry
    <3> QED
      BY Zenon, <1>4, <3>1, StartCases
  <2> QED
    BY Zenon, <2>1, NothingAssumption
<1>5. CASE Retries(t, k) \/ Registers(t, k)
  <2>1. PICK e \in Entries : e = loading[k] /\ e # NoEntry
    BY Zenon, <1>1, <1>5 DEF Retries, Registers, Collides
  <2>2. /\ RemoveWaitingThread([e EXCEPT !.initiator = t], t).definer = e.definer
        /\ AddWaitingThread(e, t).definer = e.definer
    BY <2>1 DEF RemoveWaitingThread, AddWaitingThread, Entries
  <2>3. x = e \/ x = RemoveWaitingThread([e EXCEPT !.initiator = t], t) \/ x = AddWaitingThread(e, t)
    BY Zenon, <1>5, <2>1, StartCases
  <2>4. x.definer = e.definer
    BY Zenon, <2>2, <2>3
  <2> QED
    BY Zenon, <2>1, <2>4 DEF DefineOwner
<1> QED
  BY Zenon, <1>2, <1>3, <1>4, <1>5, StartCases

\* A step that leaves the entries alone.
LEMMA StillOrder ==
    ASSUME Calm, NEW t \in Threads, Framed(t), LoadInv', loading' = loading,
           NEW k \in Names, k = Top(t),
           pc[t] \in DefineLabels =>
               /\ ~Pops(t)
               /\ stack'[t] = stack[t] => pc'[t] \in DefineLabels \cup Failing \/ Found(k)',
           Gone(t) => Gone(t)',
           exn'[t] = "circularity" => exn[t] = "circularity" \/ Circular,
           pc'[t] = "wdspin" => Listed(t, Top(t))'
    PROVE  OrderInv'
<1>1. FilesOf(t)'
  BY Zenon DEF LoadInv
<1>2. \A u \in Threads : DefineOwner(u, k)' => DefineOwner(u, k)
  BY Zenon DEF DefineOwner
<1> QED
  BY Zenon, <1>1, <1>2, OrderKept

\* The same from a label where the load neither defines nor fails.
LEMMA PassingOrder ==
    ASSUME Calm, NEW t \in Threads, Framed(t), LoadInv', loading' = loading,
           pc[t] \notin DefineLabels \cup Failing \cup {"done"},
           exn'[t] \in {exn[t], "notfound", "refused"}, pc'[t] # "wdspin"
    PROVE  OrderInv'
<1>1. PICK k \in Names : k = Top(t)
  BY Zenon, SteadyFacts DEF Calm
<1>2. ~Gone(t)
  BY Zenon DEF Gone
<1> QED
  BY Zenon, <1>1, <1>2, StillOrder

\* Steps that change no entry and do not fail a definition keep OrderInv.
LEMMA PassingSteps ==
    ASSUME Calm, NEW t \in Threads, LoadInv',
           \/ LoadFromFile(t) \/ SetupAsArray(t) \/ EnterLoadClass(t) \/ SearchClass(t)
           \/ LookupClass(t) \/ LoadClass(t)
    PROVE  OrderInv'
<1>1. Steady /\ TypeInv /\ RequestInv /\ Framed(t)
  BY Zenon, SteadyFacts, LoadFromFileRequest, SetupAsArrayRequest, MonitorRequest,
     SearchClassRequest, LookupClassRequest, LoadClassRequest DEF Calm, Steady
<1>2. /\ pc[t] \in {"read", "array", "java", "lookup", "define", "record"} /\ loading' = loading
      /\ exn' = exn \/ Raise(t, "notfound") \/ Raise(t, "refused")
  BY Zenon, <1>1, LookupClassLoad DEF LoadFromFile, SetupAsArray, EnterLoadClass, SearchClass,
     LookupClass, LoadClass, BaseLoaded
<1>3. exn'[t] \in {exn[t], "notfound", "refused"}
  BY Zenon, <1>1, <1>2, RaiseExcepts
<1>4. pc'[t] # "wdspin"
  <2>1. CASE LoadClass(t)
    <3>1. pc'[t] = "done" \/ Pops(t)
      BY Zenon, <1>1, <2>1, LoadClassRequest
    <3> QED
      BY Zenon, <3>1 DEF Pops
  <2>2. CASE LookupClass(t)
    BY Zenon, <1>1, <2>2, LookupClassLoad
  <2>3. CASE ~LoadClass(t) /\ ~LookupClass(t)
    <3>1. PICK l \in {"fail", "define", "start", "lookup", "leave", "throw"} : Goto(t, l)
      BY Zenon, <2>3 DEF LoadFromFile, SetupAsArray, EnterLoadClass, SearchClass
    <3>2. pc'[t] = l
      BY Zenon, <1>1, <3>1, GotoShape DEF Labels, EngagedLabels, Failing
    <3> QED
      BY Zenon, <3>1, <3>2
  <2> QED
    BY Zenon, <2>1, <2>2, <2>3
<1> QED
  BY Zenon, <1>1, <1>2, <1>3, <1>4, PassingOrder DEF DefineLabels, Failing

\* WaitLoading keeps OrderInv.
LEMMA WaitLoadingOrder ==
    ASSUME Calm, NEW t \in Threads, LoadInv', WaitLoading(t)
    PROVE  OrderInv'
<1>1. PICK k \in Names : k = Top(t)
  BY Zenon, SteadyFacts DEF Calm
<1>2. Steady /\ TypeInv /\ RequestOf(t) /\ Framed(t)
  BY Zenon, SteadyFacts, WaitLoadingRequest DEF Calm, Steady
<1>3. /\ pc[t] \in {"spin", "heldspin"} /\ loading' = loading /\ exn' = exn /\ stack' = stack
      /\ Listed(t, k) /\ ~Gone(t) /\ pc[t] \notin DefineLabels
  BY Zenon, <1>1, <1>2 DEF WaitLoading, RequestOf, Gone, Failing, DefineLabels
<1>4. Listed(t, Top(t))'
  BY Zenon, <1>1, <1>3 DEF Listed, Top
<1> QED
  BY Zenon, <1>1, <1>2, <1>3, <1>4, StillOrder

\* Leaving loadClass keeps OrderInv.
LEMMA LeaveOrder ==
    ASSUME Calm, NEW t \in Threads, LoadInv', LeaveLoadClass(t)
    PROVE  OrderInv'
<1>1. PICK k \in Names : k = Top(t)
  BY Zenon, SteadyFacts DEF Calm
<1>2. Steady /\ TypeInv /\ RequestOf(t) /\ Framed(t)
  BY Zenon, SteadyFacts, MonitorRequest DEF Calm, Steady
<1>3. /\ pc[t] \in {"leave", "throw"} /\ loading' = loading /\ exn' = exn
      /\ pc[t] = "throw" => pc'[t] = "refail"
      /\ pc'[t] # "wdspin"
  <2>1. PICK l \in {"delegated", "record", "refail"} : Goto(t, l) /\ (pc[t] = "throw" => l = "refail")
    BY Zenon DEF LeaveLoadClass
  <2>2. pc'[t] = l
    BY Zenon, <1>2, <2>1, GotoShape DEF Labels, Failing
  <2> QED
    BY Zenon, <2>1, <2>2 DEF LeaveLoadClass
<1>4. pc[t] \notin DefineLabels /\ (Gone(t) => Gone(t)')
  BY Zenon, <1>2, <1>3 DEF Gone, Failing, DefineLabels, Framed
<1> QED
  BY Zenon, <1>1, <1>2, <1>3, <1>4, StillOrder

\* NewClass keeps OrderInv: a definer that fails here is gone, and only a user-defined loader
\* lets it fail.
LEMMA NewClassOrder ==
    ASSUME Calm, NEW t \in Threads, LoadInv', NewClass(t)
    PROVE  OrderInv'
<1>1. PICK k \in Names : k = Top(t)
  BY Zenon, SteadyFacts DEF Calm
<1>2. Steady /\ TypeInv /\ RequestOf(t) /\ Framed(t) /\ stack[t] # <<>>
  BY Zenon, SteadyFacts, NewClassRequest DEF Calm, Steady
<1>3. /\ pc[t] = "new" /\ loading' = loading /\ (exn' = exn \/ Raise(t, "format"))
      /\ ~Gone(t)
  BY Zenon DEF NewClass, Gone, Failing
<1>4. exn'[t] = "circularity" => exn[t] = "circularity"
  BY Zenon, <1>2, <1>3, RaiseExcepts
<1>5. (pc'[t] \in {"fail", "insert"} /\ stack' = stack) \/ Pushes(t)
  <2>1. CASE \E l \in {"fail", "insert"} : Goto(t, l) /\ stack' = stack
    BY Zenon, <1>2, <2>1, GotoShape DEF Labels, Failing, DefineLabels
  <2>2. CASE /\ Fate(k) \notin {"malformed", "array"} /\ Ancestor(k) # NoName
             /\ stack' = [stack EXCEPT ![t] = <<Ancestor(k)>> \o @] /\ Goto(t, "start")
    <3>1. Ancestor(Top(t)) \in Names
      BY Zenon, <1>1, <1>2, <2>2, FileTypes
    <3> QED
      BY Zenon, <1>1, <1>2, <1>3, <2>2, <3>1, PushControls
  <2> QED
    BY Zenon, <1>1, <2>1, <2>2 DEF NewClass
<1>6. ~Pops(t) /\ pc'[t] # "wdspin"
      /\ (stack'[t] = stack[t] => pc'[t] \in DefineLabels \cup Failing)
  <2>1. CASE Pushes(t)
    BY Zenon, <1>2, <2>1, Popless DEF Pushes
  <2>2. CASE pc'[t] \in {"fail", "insert"} /\ stack' = stack
    BY Zenon, <1>2, <2>2, Popless DEF DefineLabels, Failing
  <2> QED
    BY Zenon, <1>5, <2>1, <2>2
<1> QED
  BY Zenon, <1>1, <1>2, <1>3, <1>4, <1>6, StillOrder

\* InsertClass keeps OrderInv.
LEMMA InsertClassOrder ==
    ASSUME Calm, NEW t \in Threads, LoadInv', InsertClass(t)
    PROVE  OrderInv'
<1>1. PICK k \in Names : k = Top(t)
  BY Zenon, SteadyFacts DEF Calm
<1>2. Steady /\ TypeInv /\ RequestOf(t) /\ Framed(t)
  BY Zenon, SteadyFacts, InsertClassRequest DEF Calm, Steady
<1>3. /\ pc[t] = "insert" /\ loading' = loading /\ stack' = stack /\ ~Gone(t)
  BY Zenon DEF InsertClass, Gone, Failing
<1>4. ~Pops(t)
  BY Zenon, <1>2, <1>3, Popless
<1>5. PICK l \in {"crash", "success", "fail"} :
          /\ Goto(t, l)
          /\ \/ l = "fail" /\ Raise(t, "refused")
             \/ Found(k)' /\ exn' = exn
  BY Zenon, <1>1 DEF InsertClass, Found
<1>6. /\ pc'[t] # "wdspin" /\ (pc'[t] \in Failing \/ Found(k)')
      /\ exn'[t] = "circularity" => exn[t] = "circularity"
  BY Zenon, <1>2, <1>5, GotoShape, RaiseExcepts DEF Labels, Failing
<1> QED
  BY Zenon, <1>1, <1>2, <1>3, <1>4, <1>6, StillOrder

\* A new request keeps OrderInv: none is made in a user-defined loader where a definer is gone.
LEMMA AgainOrder ==
    ASSUME Calm, NEW t \in Threads, LoadInv', Again(t)
    PROVE  OrderInv'
<1>1. PICK k \in Names : k = Top(t)
  BY Zenon, SteadyFacts DEF Calm
<1>2. Steady /\ TypeInv /\ RequestOf(t) /\ Framed(t) /\ Unforced
  BY Zenon, SteadyFacts, AgainRequest DEF Calm, Steady
<1>3. /\ pc[t] = "done" /\ loading' = loading /\ exn'[t] = "none" /\ ~Gone(t)
      /\ pc[t] \notin DefineLabels
  BY Zenon, <1>2, RaiseExcepts DEF Again, Gone, DefineLabels
<1>4. pc'[t] # "wdspin"
  <2>1. scenario.job[t].entry \in {"start", "done"}
    BY Zenon, <1>2, FileTypes DEF Unforced
  <2> QED
    BY Zenon, <1>2, <2>1, GotoShape DEF Again, Labels
<1> QED
  BY Zenon, <1>1, <1>2, <1>3, <1>4, StillOrder

\* SuccessLoadingClass and FailedLoadingClass leave the definer in the entry.
LEMMA SignallingOrder ==
    ASSUME Calm, NEW t \in Threads, LoadInv', SuccessLoadingClass(t) \/ FailedLoadingClass(t)
    PROVE  OrderInv'
<1>1. PICK k \in Names : k = Top(t)
  BY Zenon, SteadyFacts DEF Calm
<1>2. /\ Steady /\ TypeInv /\ RequestOf(t) /\ Framed(t) /\ FilesOf(t)'
      /\ loading'[k] = Signalled(loading[k], t) /\ exn' = exn
      /\ pc[t] \in Failing \cup {"success", "delegated"}
  BY Zenon, <1>1, SteadyFacts, SuccessRequest, FailedRequestStep
     DEF Calm, Steady, LoadInv, SuccessLoadingClass, FailedLoadingClass, Failing
<1>3. ASSUME NEW u \in Threads, DefineOwner(u, k)' PROVE DefineOwner(u, k)
  <2>1. PICK x : x = Signalled(loading[k], t) /\ x # NoEntry /\ x.definer = u
    BY Zenon, <1>2, <1>3 DEF DefineOwner
  <2> QED
    BY Zenon, <1>1, <1>2, <2>1, SignalledOwner
<1>4. pc'[t] # "wdspin" /\ (Gone(t) => Gone(t)')
  <2>1. CASE FailedLoadingClass(t)
    <3>1. pc'[t] \in {"throw", "done", "fail"} /\ exn'[t] # "none"
      BY Zenon, <1>2, <2>1, FailedRequestStep
         DEF Steady, RequestOf, FailedLoadingClass, Failing
    <3> QED
      BY Zenon, <1>2, <3>1 DEF Gone, Failing, Framed
  <2>2. CASE SuccessLoadingClass(t)
    <3>1. PICK l \in {"leave", "record", "done"} : Goto(t, l)
      BY Zenon, <2>2 DEF SuccessLoadingClass, DefineClassOf
    <3>2. pc'[t] = l /\ pc[t] \in {"success", "delegated"}
      BY Zenon, <1>2, <2>2, <3>1, GotoShape DEF Labels, SuccessLoadingClass
    <3> QED
      BY Zenon, <3>1, <3>2 DEF Gone, Failing
  <2> QED
    BY Zenon, <2>1, <2>2
<1>5. pc[t] \notin DefineLabels
  BY Zenon, <1>2 DEF DefineLabels, Failing
<1> QED
  BY Zenon, <1>1, <1>2, <1>3, <1>4, <1>5, OrderKept

\* StartLoadingClass finds that the thread is the initiator or the definer itself.
LEMMA StartRecurs ==
    ASSUME Calm, NEW t \in Threads, pc[t] = "start", Recurs(t, Top(t))
    PROVE  Circular
<1>1. PICK k \in Names : k = Top(t)
  BY Zenon, SteadyFacts DEF Calm
<1>2. /\ Steady /\ TypeInv /\ stack[t] # <<>> /\ FilesOf(t) /\ EntryOf(k)
      /\ ~Found(k) /\ (Initiator(t, k) \/ DefineOwner(t, k))
  BY Zenon, <1>1, SteadyFacts DEF Calm, Recurs, Collides, Initiator, DefineOwner
<1>3. Pursues(t, k) \/ Defining(t, k)
  BY Zenon, <1>2 DEF EntryOf, AnyEntry, Calm, OrderInv, Gone, Failing
<1>4. k \in Below(t)
  BY Zenon, <1>3 DEF Pursues, Defining, PursueLabels, EngagedLabels, DefineLabels, Failing
<1> QED
  BY Zenon, <1>1, <1>2, <1>4, Twice

\* StartLoadingClass keeps OrderInv: who finds itself loading the class already is in a circle
\* of ancestors.
LEMMA StartOrder ==
    ASSUME Calm, NEW t \in Threads, LoadInv', StartLoadingClass(t)
    PROVE  OrderInv'
<1>1. PICK k \in Names : k = Top(t)
  BY Zenon, SteadyFacts DEF Calm
<1>2. /\ Steady /\ TypeInv /\ RequestOf(t) /\ Framed(t) /\ FilesOf(t)'
      /\ loading'[k] = StartEntry(t, k) /\ pc[t] = "start"
  BY Zenon, <1>1, SteadyFacts, StartRequest DEF Calm, Steady, LoadInv, StartLoadingClass
<1>3. ASSUME NEW u \in Threads, DefineOwner(u, k)' PROVE DefineOwner(u, k)
  <2>1. PICK x : x = StartEntry(t, k) /\ x # NoEntry /\ x.definer = u
    BY Zenon, <1>2, <1>3 DEF DefineOwner
  <2> QED
    BY Zenon, <1>1, <1>2, <2>1, StartOwner
<1>4. /\ pc'[t] # "wdspin"
      /\ exn'[t] = "circularity" => exn[t] = "circularity" \/ Circular
  BY Zenon, <1>2, StartRequest, StartRecurs DEF Steady
<1>5. pc[t] \notin DefineLabels /\ ~Gone(t)
  BY Zenon, <1>2 DEF DefineLabels, Failing, Gone
<1> QED
  BY Zenon, <1>1, <1>2, <1>3, <1>4, <1>5, OrderKept

\* A thread that calls StartLoadingClass from WaitDefinition is neither initiator nor definer.
LEMMA UnderLockFree ==
    ASSUME Calm, NEW t \in Threads,
           \/ pc[t] = "waitdef" /\ (Top(t) \in loadedClasses \/ loading[Top(t)] = NoEntry)
           \/ pc[t] = "wdspin" /\ (loading[Top(t)] # NoEntry => loading[Top(t)].signalled)
    PROVE  ~Recurs(t, Top(t))
<1>1. PICK k \in Names : k = Top(t)
  BY Zenon, SteadyFacts DEF Calm
<1>2. Steady /\ EntryOf(k) /\ ListOf(k)
  BY Zenon, <1>1, SteadyFacts DEF Calm
<1>3. CASE pc[t] = "waitdef" /\ (k \in loadedClasses \/ loading[k] = NoEntry)
  BY Zenon, <1>1, <1>3 DEF Recurs, Collides, Found
<1>4. CASE pc[t] = "wdspin"
  <2>1. Listed(t, k) /\ ~DefineOwner(t, k)
    BY Zenon, <1>1, <1>2, <1>4 DEF Calm, OrderInv, EntryOf, AnyEntry, Engaged, EngagedLabels
  <2> QED
    BY Zenon, <1>1, <1>2, <2>1 DEF Recurs, Listed, ListOf, DefineOwner
<1> QED
  BY Zenon, <1>1, <1>3, <1>4

\* A thread that finds another definer is in the list of the entry.
LEMMA FoundDefiner ==
    ASSUME Calm, NEW t \in Threads, pc[t] = "waitdef", NEW k \in Names, k = Top(t),
           k \notin loadedClasses, loading[k] # NoEntry, loading[k].definer # NoThread
    PROVE  Listed(t, k) /\ ~DefineOwner(t, k)
<1>1. Steady /\ EntryOf(k) /\ loading[k] \in Entries \cup {NoEntry} /\ TypeInv
  BY Zenon, SteadyFacts DEF Calm
<1>2. /\ Fate(k) \in {"fine", "malformed", "array"} /\ ~Found(k)
      /\ ~Delegated(k) /\ (k \in Doomed /\ IsArray(k) => Refused(k))
  BY Zenon, <1>1, WaitingFile
<1>3. Engaged(t, k) /\ ~DefineOwner(t, k)
  BY Zenon, <1>1 DEF Engaged, EngagedLabels, EntryOf, AnyEntry
<1>4. PICK u \in Threads : DefineOwner(u, k)
  <2>1. loading[k].definer \in Threads \cup {NoThread}
    BY <1>1 DEF Entries
  <2> QED
    BY Zenon, <2>1 DEF DefineOwner
<1>5. CASE scenario.user
  <2>1. loading[k].initiator \in {NoThread, u} /\ u # t
    BY Zenon, <1>1, <1>3, <1>4, <1>5 DEF EntryOf, AnyEntry
  <2>2. ~Initiator(t, k)
    BY Zenon, <2>1, NothingAssumption DEF Initiator
  <2> QED
    BY Zenon, <1>1, <1>2, <1>3, <1>5, <2>2 DEF EntryOf, AnyEntry
<1>6. CASE ~scenario.user
  <2>1. k \notin Doomed
    <3>1. WellFormed
      BY Zenon, <1>6 DEF Calm, Undisturbed
    <3> QED
      BY Zenon, <1>1, <1>2, <3>1, WellFormedDoomed DEF IsArray, WellFormed
  <2>2. Initiator(u, k) /\ Initiator(t, k)
    BY Zenon, <1>1, <1>2, <1>3, <1>4, <1>6, <2>1 DEF EntryOf, OpenEntry
  <2> QED
    BY Zenon, <1>3, <1>4, <2>2 DEF Initiator
<1> QED
  BY Zenon, <1>5, <1>6

\* WaitDefinition ends with the thread as the definer.
LEMMA BecomesOrder ==
    ASSUME Calm, NEW t \in Threads, LoadInv', Framed(t), pc[t] \in {"waitdef", "wdspin"},
           NEW e, NEW raised \in BOOLEAN, Becomes(t, e, raised), ~raised, exn' = exn
    PROVE  OrderInv'
<1>1. PICK k \in Names : k = Top(t)
  BY Zenon, SteadyFacts DEF Calm
<1>2. FilesOf(t)' /\ pc[t] \notin DefineLabels /\ ~Gone(t)
  BY Zenon DEF LoadInv, DefineLabels, Gone, Failing
<1>3. stack'[t] = stack[t] /\ pc'[t] \in {"crash", "new"}
  BY Zenon DEF Becomes
<1>4. ASSUME NEW u \in Threads, DefineOwner(u, k)' PROVE u = t /\ pc'[t] = "new"
  <2>1. CASE e = NoEntry
    BY Zenon, <1>1, <1>4, <2>1 DEF Becomes, DefineOwner
  <2>2. CASE e # NoEntry
    <3>1. /\ e \in Entries /\ e.initiator \notin e.waiting /\ pc'[t] = "new"
          /\ loading'[k] = ChangeDefinerAndInitiator(e, t)
      BY Zenon, <1>1, <2>2 DEF Becomes
    <3>2. LET x == ChangeDefinerAndInitiator(e, t) IN x \in Entries /\ x.definer = t
      BY Zenon, <3>1, ChangeShape
    <3> QED
      BY Zenon, <1>4, <3>1, <3>2 DEF DefineOwner
  <2> QED
    BY Zenon, <2>1, <2>2
<1> QED
  BY Zenon, <1>1, <1>2, <1>3, <1>4, OrderKept

\* The StartLoadingClass that WaitDefinition calls with m_lock held keeps OrderInv.
LEMMA UnderLockOrder ==
    ASSUME Calm, NEW t \in Threads, LoadInv', Framed(t), StartedUnderLock(t),
           \/ pc[t] = "waitdef" /\ (Top(t) \in loadedClasses \/ loading[Top(t)] = NoEntry)
           \/ pc[t] = "wdspin" /\ (loading[Top(t)] # NoEntry => loading[Top(t)].signalled)
    PROVE  OrderInv'
<1>1. PICK k \in Names : k = Top(t)
  BY Zenon, SteadyFacts DEF Calm
<1>2. /\ FilesOf(t)' /\ pc[t] \in {"waitdef", "wdspin"} /\ pc[t] \notin DefineLabels /\ ~Gone(t)
      /\ Steady /\ ListOf(k) /\ loading[k] \in Entries \cup {NoEntry}
      /\ ~Recurs(t, k) /\ (Found(k) => Listed(t, k))
  BY Zenon, <1>1, SteadyFacts, UnderLockFree, UnderLockFile
     DEF Calm, LoadInv, DefineLabels, Gone, Failing
<1>3. CASE /\ Listed(t, k) /\ loading'[k] = Kept(RemoveWaitingThread(loading[k], t))
           /\ pc'[t] \in {"leave", "done", "record"} /\ exn' = exn
  <2>1. ASSUME NEW u \in Threads, DefineOwner(u, k)' PROVE DefineOwner(u, k)
    <3>1. PICK e \in Entries : e = loading[k] /\ e # NoEntry
      BY Zenon, <1>2, <1>3 DEF Listed
    <3>2. RemoveWaitingThread(e, t).definer = e.definer
      BY <3>1 DEF RemoveWaitingThread, Entries
    <3>3. loading'[k] = RemoveWaitingThread(e, t)
      BY Zenon, <1>3, <2>1, <3>1 DEF Kept, DefineOwner
    <3> QED
      BY Zenon, <2>1, <3>1, <3>2, <3>3 DEF DefineOwner
  <2> QED
    BY Zenon, <1>1, <1>2, <1>3, <2>1, OrderKept
<1>4. CASE /\ Waits(t, k) /\ loading'[k] = AddWaitingThread(loading[k], t)
           /\ pc'[t] = "heldspin" /\ exn' = exn
  <2>1. ASSUME NEW u \in Threads, DefineOwner(u, k)' PROVE DefineOwner(u, k)
    <3>1. PICK e \in Entries : e = loading[k] /\ e # NoEntry
      BY Zenon, <1>2, <1>4 DEF Waits, Registers, Collides
    <3>2. AddWaitingThread(e, t).definer = e.definer
      BY <3>1 DEF AddWaitingThread, Entries
    <3> QED
      BY Zenon, <1>4, <2>1, <3>1, <3>2 DEF DefineOwner
  <2> QED
    BY Zenon, <1>1, <1>2, <1>4, <2>1, OrderKept
<1>5. CASE /\ Becomes(t, StartEntry(t, k), Recurs(t, k))
           /\ IF Recurs(t, k) THEN exn'[t] = "circularity" ELSE exn' = exn
  <2>1. PICK e : e = StartEntry(t, k)
    BY Zenon
  <2>2. Recurs(t, k) \in BOOLEAN /\ exn' = exn /\ Becomes(t, e, Recurs(t, k))
    BY Zenon, <1>2, <1>5, <2>1 DEF Recurs
  <2> QED
    BY Zenon, <1>2, <2>2, BecomesOrder
<1> QED
  BY Zenon, <1>1, <1>2, <1>3, <1>4, <1>5 DEF StartedUnderLock

\* WaitDefinition keeps OrderInv: who waits for a definer is in the list of the entry.
LEMMA WaitDefinitionOrder ==
    ASSUME Calm, NEW t \in Threads, LoadInv', WaitDefinition(t)
    PROVE  OrderInv'
<1>1. PICK k \in Names : k = Top(t)
  BY Zenon, SteadyFacts DEF Calm
<1>2. /\ Steady /\ TypeInv /\ Framed(t) /\ pc[t] = "waitdef" /\ RequestInv
      /\ pc[t] \notin DefineLabels /\ ~Gone(t)
  BY Zenon, SteadyFacts, WaitDefinitionRequest
     DEF Calm, Steady, WaitDefinition, DefineLabels, Gone, Failing
<1>3. CASE exn' = exn /\ Becomes(t, loading[k], FALSE)
  BY Zenon, <1>1, <1>2, <1>3, BecomesOrder
<1>4. CASE /\ k \notin loadedClasses /\ loading[k] # NoEntry /\ loading[k].definer # NoThread
           /\ loading' = loading /\ exn' = exn /\ Top(t)' = k
  <2>1. Listed(t, k)
    BY Zenon, <1>1, <1>2, <1>4, FoundDefiner
  <2>2. Listed(t, Top(t))'
    BY Zenon, <1>4, <2>1 DEF Listed
  <2> QED
    BY Zenon, <1>1, <1>2, <1>4, <2>2, StillOrder
<1>5. CASE (k \in loadedClasses \/ loading[k] = NoEntry) /\ StartedUnderLock(t)
  BY Zenon, <1>1, <1>2, <1>5, UnderLockOrder
<1> QED
  BY Zenon, <1>1, <1>2, <1>3, <1>4, <1>5, WaitDefinitionRequest

\* WaitDefinition after its wait keeps OrderInv.
LEMMA WaitedOrder ==
    ASSUME Calm, NEW t \in Threads, LoadInv', WaitedDefinition(t)
    PROVE  OrderInv'
BY Zenon, WaitedRequest, UnderLockOrder DEF Calm, Steady, WaitedDefinition

\* Stuttering keeps OrderInv.
LEMMA SameStateOrder ==
    ASSUME OrderInv, UNCHANGED vars
    PROVE  OrderInv'
<1>1. /\ scenario' = scenario /\ loading' = loading /\ pc' = pc /\ stack' = stack /\ exn' = exn
      /\ loadedClasses' = loadedClasses /\ initiatedClasses' = initiatedClasses
  BY Zenon DEF vars, tables
<1>2. /\ Circular' = Circular
      /\ \A t : Listed(t, Top(t))' = Listed(t, Top(t)) /\ Gone(t)' = Gone(t)
      /\ \A t, n : DefineOwner(t, n)' = DefineOwner(t, n) /\ Defining(t, n)' = Defining(t, n)
      /\ \A n : Found(n)' = Found(n)
  BY Zenon, <1>1, FilesStay DEF Listed, Top, Gone, DefineOwner, Defining, Below, Found, IsArray, Fate
<1> QED
  BY Zenon, <1>1, <1>2 DEF OrderInv

\* Every step keeps OrderInv without disturbance.
LEMMA OrderInvariant ==
    ASSUME RequestInv, Unforced => LoadInv, Undisturbed => OrderInv, [Next]_vars
    PROVE  (Undisturbed => OrderInv)'
<1>1. (Unforced => LoadInv)'
  BY Zenon, LoadInvariant
<1>2. CASE UNCHANGED vars
  <2>1. Undisturbed' = Undisturbed
    BY Zenon, <1>2, FilesStay DEF vars
  <2> QED
    BY Zenon, <1>2, <2>1, SameStateOrder
<1>3. ASSUME NEW t \in Threads, Step(t) \/ Again(t) PROVE (Undisturbed => OrderInv)'
  <2>1. scenario' = scenario
    BY Zenon, <1>3 DEF Step, StartLoadingClass, WaitLoading, LoadFromFile, SetupAsArray,
       EnterLoadClass, SearchClass, LeaveLoadClass, LookupClass, WaitDefinition, WaitedDefinition,
       NewClass, InsertClass, SuccessLoadingClass, FailedLoadingClass, LoadClass, Again
  <2>2. Undisturbed' = Undisturbed /\ Unforced' = Unforced
    BY Zenon, <2>1, FilesStay
  <2>3. ASSUME Undisturbed PROVE OrderInv'
    <3>1. Calm /\ LoadInv'
      BY Zenon, <1>1, <2>2, <2>3 DEF Calm, Steady, Undisturbed
    <3> QED
      BY Zenon, <1>3, <3>1, PassingSteps, StartOrder, WaitLoadingOrder, LeaveOrder,
         WaitDefinitionOrder, WaitedOrder, NewClassOrder, InsertClassOrder, SignallingOrder,
         AgainOrder
         DEF Step
  <2> QED
    BY Zenon, <2>2, <2>3
<1> QED
  BY Zenon, <1>2, <1>3 DEF Next

\* OrderInv holds when nobody has asked for anything.
LEMMA InitOrder == Init /\ Undisturbed => OrderInv
<1> SUFFICES ASSUME Init, Undisturbed PROVE OrderInv
  BY Zenon
<1>1. \A t \in Threads : scenario.job[t].entry \in {"start", "done"}
  BY Zenon, InitRequest, FileTypes DEF RequestInv, Undisturbed, Unforced
<1>2. /\ \A t \in Threads : pc[t] \in {"start", "done"} /\ exn[t] = "none"
      /\ \A t \in Threads, n \in Names : ~DefineOwner(t, n)
  BY Zenon, <1>1 DEF Init, DefineOwner
<1> QED
  BY Zenon, <1>2 DEF OrderInv

\* The three invariants together.
THEOREM Invariance == Spec => []IInv
<1>1. Init => IInv
  BY Zenon, InitRequest, InitLoad, InitOrder DEF IInv
<1>2. IInv /\ [Next]_vars => IInv'
  BY Zenon, RequestInvariant, LoadInvariant, OrderInvariant DEF IInv
<1> QED
  BY <1>1, <1>2, PTL DEF Spec

\* A thread spins on the LoadingClass of its name only while the table has one: neither
\* RemoveLoadingClass nor the thread that takes over removes it.
THEOREM WaitersKeepEntries == Spec => []WaiterKeepsEntry
<1>1. IInv => WaiterKeepsEntry
  <2> SUFFICES ASSUME IInv, Undisturbed, NEW t \in Threads,
                      pc[t] \in {"spin", "wdspin", "heldspin"}
               PROVE  loading[Top(t)] # NoEntry
    BY Zenon DEF WaiterKeepsEntry
  <2>1. Listed(t, Top(t))
    BY Zenon DEF IInv, RequestInv, RequestOf, OrderInv
  <2> QED
    BY Zenon, <2>1 DEF Listed
<1> QED
  BY <1>1, Invariance, PTL

\* No thread gets ClassCircularityError unless class files are circular, nor LinkageError for
\* a class it loads by name.
THEOREM NoFalseErrors == Spec => []NoFalseError
<1>1. IInv => NoFalseError
  BY Zenon DEF IInv, NoFalseError, Undisturbed, LoadInv, AloneOf, OrderInv
<1> QED
  BY <1>1, Invariance, PTL
=============================================================================
