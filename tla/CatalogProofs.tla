---------------------------- MODULE CatalogProofs ----------------------------
(***************************************************************************)
(* The deletions of the catalogue, for every number of programs, courses,  *)
(* periods, sections, teachers, years and deletions in flight.  The        *)
(* inductive invariant is IInv of Catalog: a locked row has one owner and  *)
(* is live, so no insert that names it runs, so what was counted absent    *)
(* stays absent.                                                           *)
(***************************************************************************)
EXTENDS Catalog, TLAPS

\* The catalogue starts empty and without deletions.
LEMMA InitIInv == Init => IInv
  BY CatalogAssumption
  DEF Init, IInv, TypeOK, RowMutex, LockedLive, CountedStays, Soft, Steps, Parents

\* Taking a row: it was live and nobody else's.
LEMMA GetForUpdateIInv ==
  ASSUME IInv, NEW d \in Calls, NEW x \in Parents, GetForUpdate(d, x)
  PROVE  IInv'
<1>1. TypeOK'
  BY CatalogAssumption DEF IInv, TypeOK, GetForUpdate, tables, Soft, Steps
<1>2. RowMutex' /\ LockedLive'
  BY CatalogAssumption DEF IInv, TypeOK, RowMutex, LockedLive, GetForUpdate, RowFree, tables
<1>3. CountedStays'
  BY DEF IInv, TypeOK, CountedStays, GetForUpdate, tables, Bare, ProgramCourses,
         CourseProgramAssociations, LiveSectionsByCourse, LiveSectionsByPeriod,
         SectionTeachers
<1> QED BY <1>1, <1>2, <1>3 DEF IInv

\* A deletion that ends, having changed nothing, releases its row.
LEMMA ReleaseIInv ==
  ASSUME IInv, NEW d \in Calls, Finish(d), UNCHANGED tables
  PROVE  IInv'
<1>1. TypeOK'
  BY DEF IInv, TypeOK, Finish, tables, Soft, Steps
<1>2. RowMutex' /\ LockedLive'
  BY DEF IInv, TypeOK, RowMutex, LockedLive, Finish, tables
<1>3. CountedStays'
  BY DEF IInv, TypeOK, CountedStays, Finish, tables, Bare, ProgramCourses,
         CourseProgramAssociations, LiveSectionsByCourse, LiveSectionsByPeriod,
         SectionTeachers
<1> QED BY <1>1, <1>2, <1>3 DEF IInv

\* A deletion that goes on to its next statement, having found what that
\* statement needs absent.
LEMMA GoOnIInv ==
  ASSUME IInv, NEW d \in Calls, NEW next \in {"second", "delete"},
         pc[d] # "idle", pc' = [pc EXCEPT ![d] = next], UNCHANGED <<target, tables>>,
         next = "second" =>
           /\ target[d] \in Programs \cup Courses
           /\ target[d] \in Programs => ProgramCourses(target[d]) = {}
           /\ target[d] \in Courses => CourseProgramAssociations(target[d]) = {},
         next = "delete" => Bare(target[d])
  PROVE  IInv'
<1>1. TypeOK'
  BY DEF IInv, TypeOK, tables, Soft, Steps
<1>2. RowMutex' /\ LockedLive'
  BY DEF IInv, TypeOK, RowMutex, LockedLive, tables
<1>3. CountedStays'
  BY DEF IInv, TypeOK, CountedStays, tables, Bare, ProgramCourses,
         CourseProgramAssociations, LiveSectionsByCourse, LiveSectionsByPeriod,
         SectionTeachers
<1> QED BY <1>1, <1>2, <1>3 DEF IInv

\* The write of a deletion: nobody else has the row, and a row less is a
\* dependent less.
LEMMA SoftDeleteIInv ==
  ASSUME IInv, NEW d \in Calls, SoftDelete(d)
  PROVE  IInv'
<1>0. target[d] \in Parents
  BY DEF IInv, TypeOK, SoftDelete
<1>1. TypeOK'
  BY <1>0, CatalogAssumption DEF IInv, TypeOK, LockedLive, SoftDelete, Finish, Soft, Steps
<1>2. RowMutex'
  BY DEF IInv, TypeOK, RowMutex, SoftDelete, Finish
<1>3. LockedLive'
  BY <1>0 DEF IInv, TypeOK, RowMutex, LockedLive, SoftDelete, Finish
<1>4. CountedStays'
  BY <1>0 DEF IInv, TypeOK, CountedStays, SoftDelete, Finish, Bare, ProgramCourses,
         CourseProgramAssociations, LiveSectionsByCourse, LiveSectionsByPeriod,
         SectionTeachers
<1> QED BY <1>1, <1>2, <1>3, <1>4 DEF IInv

\* What the deletions do.
Deletes(d) ==
  \/ DeleteProgramTx(d)
  \/ DeleteCourseTx(d)
  \/ DeleteAcademicPeriodTx(d)
  \/ DeleteSectionTx(d)

\* Every statement of every deletion preserves the invariant.
LEMMA DeletesIInv ==
  ASSUME IInv, NEW d \in Calls, Deletes(d)
  PROVE  IInv'
<1>1. CASE \E x \in Parents : GetForUpdate(d, x)
  BY <1>1, GetForUpdateIInv
<1>2. CASE SoftDelete(d)
  BY <1>2, SoftDeleteIInv
<1>3. CASE Finish(d) /\ UNCHANGED tables
  BY <1>3, ReleaseIInv
<1>4. CASE target[d] \in Programs /\ Count(d, "first", ProgramCourses(target[d]), "second")
  <2>1. CASE ProgramCourses(target[d]) # {}
    BY <1>4, <2>1, ReleaseIInv DEF Count
  <2>2. CASE ProgramCourses(target[d]) = {}
    BY <1>4, <2>2, GoOnIInv, CatalogAssumption DEF Count
  <2> QED BY <2>1, <2>2
<1>5. CASE target[d] \in Programs /\ Count(d, "second", LiveProgramQuotas(target[d]), "delete")
  <2>1. CASE LiveProgramQuotas(target[d]) # {}
    BY <1>5, <2>1, ReleaseIInv DEF Count
  <2>2. CASE LiveProgramQuotas(target[d]) = {}
    <3>1. Bare(target[d])
      BY <1>5, CatalogAssumption DEF IInv, CountedStays, Count, Bare
    <3> QED BY <1>5, <2>2, <3>1, GoOnIInv DEF Count
  <2> QED BY <2>1, <2>2
<1>6. CASE target[d] \in Courses /\ Count(d, "first", CourseProgramAssociations(target[d]), "second")
  <2>1. CASE CourseProgramAssociations(target[d]) # {}
    BY <1>6, <2>1, ReleaseIInv DEF Count
  <2>2. CASE CourseProgramAssociations(target[d]) = {}
    BY <1>6, <2>2, GoOnIInv, CatalogAssumption DEF Count
  <2> QED BY <2>1, <2>2
<1>7. CASE target[d] \in Courses /\ Count(d, "second", LiveSectionsByCourse(target[d]), "delete")
  <2>1. CASE LiveSectionsByCourse(target[d]) # {}
    BY <1>7, <2>1, ReleaseIInv DEF Count
  <2>2. CASE LiveSectionsByCourse(target[d]) = {}
    <3>1. Bare(target[d])
      BY <1>7, <2>2, CatalogAssumption DEF IInv, CountedStays, Count, Bare
    <3> QED BY <1>7, <2>2, <3>1, GoOnIInv DEF Count
  <2> QED BY <2>1, <2>2
<1>8. CASE target[d] \in Periods /\ Count(d, "first", LiveSectionsByPeriod(target[d]), "delete")
  <2>1. CASE LiveSectionsByPeriod(target[d]) # {}
    BY <1>8, <2>1, ReleaseIInv DEF Count
  <2>2. CASE LiveSectionsByPeriod(target[d]) = {}
    <3>1. Bare(target[d])
      BY <1>8, <2>2, CatalogAssumption DEF Bare
    <3> QED BY <1>8, <2>2, <3>1, GoOnIInv DEF Count
  <2> QED BY <2>1, <2>2
<1>9. CASE target[d] \in Sections /\ Count(d, "first", SectionTeachers(target[d]), "delete")
  <2>1. CASE SectionTeachers(target[d]) # {}
    BY <1>9, <2>1, ReleaseIInv DEF Count
  <2>2. CASE SectionTeachers(target[d]) = {}
    <3>1. Bare(target[d])
      BY <1>9, <2>2, CatalogAssumption DEF Bare
    <3> QED BY <1>9, <2>2, <3>1, GoOnIInv DEF Count
  <2> QED BY <2>1, <2>2
<1> QED
  BY <1>1, <1>2, <1>4, <1>5, <1>6, <1>7, <1>8, <1>9
  DEF Deletes, DeleteProgramTx, DeleteCourseTx, DeleteAcademicPeriodTx, DeleteSectionTx, Parents
\* What the writes of one statement leave alone: the deletions, and the rows a
\* deletion has locked, of which they insert no dependents.
Spares ==
  /\ UNCHANGED <<pc, target>>
  /\ \A x \in Parents : ~RowFree(x) =>
       /\ row'[x] = row[x]
       /\ x \in Programs => ProgramCourses(x)' \subseteq ProgramCourses(x)
       /\ x \in Courses =>
            /\ CourseProgramAssociations(x)' \subseteq CourseProgramAssociations(x)
            /\ LiveSectionsByCourse(x)' \subseteq LiveSectionsByCourse(x)
       /\ x \in Periods => LiveSectionsByPeriod(x)' \subseteq LiveSectionsByPeriod(x)
       /\ x \in Sections => SectionTeachers(x)' \subseteq SectionTeachers(x)

\* A write that spares the locked rows preserves the invariant.
LEMMA SparesIInv ==
  ASSUME IInv, TypeOK', Spares
  PROVE  IInv'
<1>0. ASSUME NEW d \in Calls, target[d] # None
      PROVE  target[d] \in Parents /\ ~RowFree(target[d])
  BY <1>0 DEF IInv, TypeOK, RowFree
<1>1. RowMutex' /\ LockedLive'
  BY <1>0 DEF IInv, RowMutex, LockedLive, Spares
<1>2. ASSUME NEW x \in Parents, ~RowFree(x), Bare(x) PROVE Bare(x)'
  BY <1>2 DEF Bare, Spares
<1>3. CountedStays'
  <2> SUFFICES ASSUME NEW d \in Calls, NEW x \in Parents, target[d] = x
               PROVE  /\ pc[d] = "second" /\ x \in Programs => ProgramCourses(x)' = {}
                      /\ pc[d] = "second" /\ x \in Courses =>
                           CourseProgramAssociations(x)' = {}
                      /\ pc[d] = "second" => x \in Programs \cup Courses
                      /\ pc[d] = "delete" => Bare(x)'
    <3>1. UNCHANGED <<pc, target>>
      BY DEF Spares
    <3>2. \A d \in Calls : pc[d] \in {"second", "delete"} => target[d] \in Parents
      BY DEF IInv, TypeOK
    <3> QED
      BY <3>1, <3>2 DEF CountedStays, Bare, ProgramCourses, CourseProgramAssociations,
                        LiveSectionsByCourse, LiveSectionsByPeriod, SectionTeachers
  <2>1. ~RowFree(x)
    BY DEF RowFree
  <2>2. pc[d] = "delete" => Bare(x)'
    BY <1>2, <2>1 DEF IInv, CountedStays
  <2> QED BY <2>1, <2>2 DEF IInv, CountedStays, Spares
<1> QED BY <1>1, <1>3 DEF IInv

\* A new section names a course and a period that no deletion has locked.
LEMMA CreateSectionSpares ==
  ASSUME IInv, NEW s \in Sections, NEW c \in Courses, NEW t \in Periods, CreateSection(s, c, t)
  PROVE  TypeOK' /\ Spares
<1>1. TypeOK'
  BY CatalogAssumption DEF IInv, TypeOK, CreateSection, Refers, Soft, Parents
<1>2. RowFree(s) /\ RowFree(c) /\ RowFree(t)
  BY CatalogAssumption
  DEF IInv, LockedLive, TypeOK, CreateSection, Refers, RowFree, Parents, Soft
<1>3. Spares
  <2> SUFFICES ASSUME NEW x \in Parents, ~RowFree(x)
               PROVE  /\ row'[x] = row[x]
                      /\ LiveSectionsByCourse(x)' \subseteq LiveSectionsByCourse(x)
                      /\ LiveSectionsByPeriod(x)' \subseteq LiveSectionsByPeriod(x)
    BY DEF Spares, CreateSection, ProgramCourses, CourseProgramAssociations, SectionTeachers
  <2>1. x # s /\ x # c /\ x # t
    BY <1>2
  <2>2. row'[x] = row[x]
    BY <2>1 DEF IInv, TypeOK, CreateSection
  <2>3. placed'[s] = <<c, t>> /\ \A r \in Sections \ {s} : row'[r] = row[r] /\ placed'[r] = placed[r]
    BY DEF IInv, TypeOK, CreateSection, Parents
  <2> QED BY <2>1, <2>2, <2>3 DEF LiveSectionsByCourse, LiveSectionsByPeriod
<1> QED BY <1>1, <1>3

\* A new program, course or period is not one that is locked: those are live.
LEMMA CreateSpares ==
  ASSUME IInv, NEW x \in Programs \cup Courses \cup Periods, Create(x)
  PROVE  TypeOK' /\ Spares
<1>1. TypeOK'
  BY CatalogAssumption DEF IInv, TypeOK, Create, Soft, Parents
<1>2. RowFree(x)
  BY CatalogAssumption DEF IInv, LockedLive, TypeOK, Create, RowFree, Parents, Soft
<1>3. Spares
  <2>1. \A y \in Parents \ {x} : row'[y] = row[y]
    BY DEF IInv, TypeOK, Create
  <2>2. \A s \in Sections : row'[s] = row[s]
    BY <2>1, CatalogAssumption DEF Parents
  <2> QED
    BY <1>2, <2>1, <2>2
    DEF Create, Spares, ProgramCourses, CourseProgramAssociations,
        LiveSectionsByCourse, LiveSectionsByPeriod, SectionTeachers
<1> QED BY <1>1, <1>3

\* Courses of programs come and go, none to a row that is locked.
LEMMA PlanSpares ==
  ASSUME IInv, NEW p \in Programs, NEW c \in Courses,
         AddCourseToProgram(p, c) \/ RemoveCourseFromProgram(p, c)
  PROVE  TypeOK' /\ Spares
  BY CatalogAssumption
  DEF IInv, TypeOK, AddCourseToProgram, RemoveCourseFromProgram, Refers, RowFree, Spares,
      ProgramCourses, CourseProgramAssociations, LiveSectionsByCourse, LiveSectionsByPeriod,
      SectionTeachers

\* Teachers of sections come and go, none to a section that is locked.
LEMMA TeachersSpares ==
  ASSUME IInv, NEW s \in Sections, NEW u \in Teachers,
         AssignTeacherToSection(s, u) \/ RemoveTeacherFromSection(s, u)
  PROVE  TypeOK' /\ Spares
  BY CatalogAssumption
  DEF IInv, TypeOK, AssignTeacherToSection, RemoveTeacherFromSection, Refers, RowFree, Spares,
      ProgramCourses, CourseProgramAssociations, LiveSectionsByCourse, LiveSectionsByPeriod,
      SectionTeachers

\* Quotas are counted, but no later statement relies on their count.
LEMMA QuotasSpare ==
  ASSUME IInv, NEW p \in Programs, NEW y \in Years, NEW z \in Years,
         \/ CreateProgramQuota(p, y)
         \/ UpdateProgramQuota(p, y, z)
         \/ SoftDeleteProgramQuota(p, y)
  PROVE  TypeOK' /\ Spares
<1>1. TypeOK'
  <2>1. quota' \in [Programs -> [Years -> Soft]]
    BY DEF IInv, TypeOK, CreateProgramQuota, UpdateProgramQuota, SoftDeleteProgramQuota, Soft
  <2> QED
    BY <2>1 DEF IInv, TypeOK, CreateProgramQuota, UpdateProgramQuota, SoftDeleteProgramQuota
<1>2. Spares
  BY DEF CreateProgramQuota, UpdateProgramQuota, SoftDeleteProgramQuota, Spares, ProgramCourses,
         CourseProgramAssociations, LiveSectionsByCourse, LiveSectionsByPeriod, SectionTeachers
<1> QED BY <1>1, <1>2

\* Nothing happens.
LEMMA StutterIInv == ASSUME IInv, UNCHANGED vars PROVE IInv'
  BY DEF IInv, vars, TypeOK, RowMutex, LockedLive, CountedStays, Bare, ProgramCourses,
         CourseProgramAssociations, LiveSectionsByCourse, LiveSectionsByPeriod, SectionTeachers

\* The invariant is inductive.
LEMMA NextIInv == IInv /\ [Next]_vars => IInv'
<1> SUFFICES ASSUME IInv, [Next]_vars PROVE IInv'
  OBVIOUS
<1>1. ASSUME NEW d \in Calls, Deletes(d) PROVE IInv'
  BY <1>1, DeletesIInv
<1>2. ASSUME NEW d \in Calls, Abort(d) PROVE IInv'
  BY <1>2, ReleaseIInv DEF Abort
<1>3. ASSUME NEW x \in Programs \cup Courses \cup Periods, Create(x) PROVE IInv'
  BY <1>3, CreateSpares, SparesIInv
<1>4. ASSUME NEW s \in Sections, NEW c \in Courses, NEW t \in Periods, CreateSection(s, c, t)
      PROVE  IInv'
  BY <1>4, CreateSectionSpares, SparesIInv
<1>5. ASSUME NEW p \in Programs, NEW c \in Courses,
             AddCourseToProgram(p, c) \/ RemoveCourseFromProgram(p, c)
      PROVE  IInv'
  BY <1>5, PlanSpares, SparesIInv
<1>6. ASSUME NEW s \in Sections, NEW u \in Teachers,
             AssignTeacherToSection(s, u) \/ RemoveTeacherFromSection(s, u)
      PROVE  IInv'
  BY <1>6, TeachersSpares, SparesIInv
<1>7. ASSUME NEW p \in Programs, NEW y \in Years, NEW z \in Years,
             \/ CreateProgramQuota(p, y)
             \/ UpdateProgramQuota(p, y, z)
             \/ SoftDeleteProgramQuota(p, y)
      PROVE  IInv'
  BY <1>7, QuotasSpare, SparesIInv
<1> QED
  BY <1>1, <1>2, <1>3, <1>4, <1>5, <1>6, <1>7, StutterIInv
  DEF Next, Deletes, CreateProgram, CreateCourse, CreateAcademicPeriod

\* The inductive invariant holds throughout.
THEOREM CatalogIInv == Spec => []IInv
  BY InitIInv, NextIInv, PTL DEF Spec

\* Type correctness of the catalogue.
THEOREM CatalogType == Spec => []TypeOK
<1>1. IInv => TypeOK
  BY DEF IInv
<1> QED BY <1>1, CatalogIInv, PTL

\* Only a deletion marks a row deleted.
LEMMA OnlySoftDelete ==
  ASSUME IInv, [Next]_vars, NEW x \in Parents, row[x] = "live", row'[x] = "deleted"
  PROVE  \E d \in Calls : pc[d] = "delete" /\ target[d] = x
<1>1. ASSUME NEW d \in Calls, SoftDelete(d) PROVE pc[d] = "delete" /\ target[d] = x
  BY <1>1 DEF IInv, TypeOK, SoftDelete
<1>2. ASSUME NEW d \in Calls, Deletes(d), ~SoftDelete(d) PROVE UNCHANGED row
  BY <1>2 DEF Deletes, DeleteProgramTx, DeleteCourseTx, DeleteAcademicPeriodTx, DeleteSectionTx,
              GetForUpdate, Count, tables
<1>3. ASSUME NEW y \in Parents, row' = [row EXCEPT ![y] = "live"] PROVE FALSE
  BY <1>3 DEF IInv, TypeOK
<1> QED
  BY <1>1, <1>2, <1>3
  DEF Next, Deletes, Abort, tables, vars, CreateProgram, CreateCourse, CreateAcademicPeriod, Create,
      CreateSection, AddCourseToProgram, RemoveCourseFromProgram, CreateProgramQuota,
      UpdateProgramQuota, SoftDeleteProgramQuota, AssignTeacherToSection,
      RemoveTeacherFromSection, Parents

\* The dependent check of a deletion and its write are one: what it counted absent
\* is absent when the row is marked deleted.
THEOREM CatalogDeletes == Spec => DeletedWhenBare
<1>1. ASSUME IInv, [Next]_vars
      PROVE  [\A x \in Parents : row[x] = "live" /\ row'[x] = "deleted" => Bare(x)]_vars
  BY <1>1, OnlySoftDelete DEF IInv, CountedStays
<1> QED BY <1>1, CatalogIInv, PTL DEF Spec, DeletedWhenBare
===============================================================================
