------------------------------- MODULE Catalog -------------------------------
(***************************************************************************)
(* The academic catalogue: internal/catalog of the API.  Programs, courses *)
(* and academic periods, the sections that offer a course in a period, the *)
(* courses of a program, its yearly quotas and the teachers of a section.  *)
(*                                                                         *)
(* A deletion is soft: one transaction locks the row FOR UPDATE, counts    *)
(* what depends on it in one or two statements and marks it deleted.  An   *)
(* insert of a dependent row takes a KEY SHARE lock on the rows its        *)
(* foreign keys name, which waits for FOR UPDATE; what it does not test is *)
(* whether they are deleted.  Names, codes and dates are left out.         *)
(***************************************************************************)
EXTENDS Naturals

CONSTANTS
  Calls,     \* deletions in flight, over all replicas
  Programs,
  Courses,
  Periods,   \* academic periods
  Sections,
  Teachers,
  Years,     \* years of program quotas
  None

Parents == Programs \cup Courses \cup Periods \cup Sections

ASSUME CatalogAssumption ==
  /\ None \notin Parents
  /\ None \notin Courses \X Periods
  /\ Programs \cap (Courses \cup Periods \cup Sections) = {}
  /\ Courses \cap (Periods \cup Sections) = {}
  /\ Periods \cap Sections = {}

VARIABLES
  row,      \* what there is of each program, course, period and section
  placed,   \* course and period of each section
  plan,     \* rows of program_courses
  quota,    \* quota[p][y]: what there is of the program_quotas row
  teaches,  \* rows of section_teachers
  pc,       \* next statement of each deletion
  target    \* the row it deletes

tables == <<row, placed, plan, quota, teaches>>
vars   == <<row, placed, plan, quota, teaches, pc, target>>

Soft  == {"none", "live", "deleted"}  \* deleted_at of a row that may not exist
Steps == {"idle", "first", "second", "delete"}

\* What blocks a deletion.
ProgramCourses(p)            == {c \in Courses : <<p, c>> \in plan}
LiveProgramQuotas(p)         == {y \in Years : quota[p][y] = "live"}
CourseProgramAssociations(c) == {p \in Programs : <<p, c>> \in plan}
LiveSectionsByCourse(c)      == {s \in Sections : row[s] = "live" /\ placed[s][1] = c}
LiveSectionsByPeriod(t)      == {s \in Sections : row[s] = "live" /\ placed[s][2] = t}
SectionTeachers(s)           == {u \in Teachers : <<s, u>> \in teaches}

\* Mutant: the row is read without FOR UPDATE.
NoRowLock(x) == TRUE

\* No deletion has locked the row.
RowFree(x) == \A d \in Calls : target[d] # x

TypeOK ==
  /\ row \in [Parents -> Soft]
  /\ placed \in [Sections -> (Courses \X Periods) \cup {None}]
  /\ plan \subseteq Programs \X Courses
  /\ quota \in [Programs -> [Years -> Soft]]
  /\ teaches \subseteq Sections \X Teachers
  /\ pc \in [Calls -> Steps]
  /\ target \in [Calls -> Parents \cup {None}]
  /\ \A d \in Calls : pc[d] = "idle" <=> target[d] = None
  /\ \A s \in Sections : row[s] = "none" <=> placed[s] = None

Init ==
  /\ row = [x \in Parents |-> "none"]
  /\ placed = [s \in Sections |-> None]
  /\ plan = {}
  /\ quota = [p \in Programs |-> [y \in Years |-> "none"]]
  /\ teaches = {}
  /\ pc = [d \in Calls |-> "idle"]
  /\ target = [d \in Calls |-> None]

\* Mutant: a refused deletion goes on.
FinishGoesOn(d) == target' = [target EXCEPT ![d] = None] /\ UNCHANGED pc

\* Commit or rollback releases the row.
Finish(d) ==
  /\ pc' = [pc EXCEPT ![d] = "idle"]
  /\ target' = [target EXCEPT ![d] = None]
-------------------------------------------------------------------------------
(* The deletions: one transaction each. *)

\* Get...ForUpdate finds live rows only, and waits for another deletion.
GetForUpdate(d, x) ==
  /\ pc[d] = "idle"
  /\ row[x] = "live"
  /\ RowFree(x)
  /\ pc' = [pc EXCEPT ![d] = "first"]
  /\ target' = [target EXCEPT ![d] = x]
  /\ UNCHANGED tables

\* A count that is not zero is ErrHasDependents.
Count(d, step, found, next) ==
  /\ pc[d] = step
  /\ \/ found # {} /\ Finish(d)
     \/ found = {} /\ pc' = [pc EXCEPT ![d] = next] /\ UNCHANGED target
  /\ UNCHANGED tables

SoftDelete(d) ==
  /\ pc[d] = "delete"
  /\ row' = [row EXCEPT ![target[d]] = "deleted"]
  /\ Finish(d)
  /\ UNCHANGED <<placed, plan, quota, teaches>>

DeleteProgramTx(d) ==
  \/ \E p \in Programs : GetForUpdate(d, p)
  \/ /\ target[d] \in Programs
     /\ \/ Count(d, "first", ProgramCourses(target[d]), "second")
        \/ Count(d, "second", LiveProgramQuotas(target[d]), "delete")
        \/ SoftDelete(d)

DeleteCourseTx(d) ==
  \/ \E c \in Courses : GetForUpdate(d, c)
  \/ /\ target[d] \in Courses
     /\ \/ Count(d, "first", CourseProgramAssociations(target[d]), "second")
        \/ Count(d, "second", LiveSectionsByCourse(target[d]), "delete")
        \/ SoftDelete(d)

DeleteAcademicPeriodTx(d) ==
  \/ \E t \in Periods : GetForUpdate(d, t)
  \/ /\ target[d] \in Periods
     /\ Count(d, "first", LiveSectionsByPeriod(target[d]), "delete") \/ SoftDelete(d)

DeleteSectionTx(d) ==
  \/ \E s \in Sections : GetForUpdate(d, s)
  \/ /\ target[d] \in Sections
     /\ Count(d, "first", SectionTeachers(target[d]), "delete") \/ SoftDelete(d)

\* The client goes away, the connection is lost or the replica is stopped.
Abort(d) == pc[d] # "idle" /\ Finish(d) /\ UNCHANGED tables
-------------------------------------------------------------------------------
(* The other writes: one statement each. *)

Create(x) ==
  /\ row[x] = "none"
  /\ row' = [row EXCEPT ![x] = "live"]
  /\ UNCHANGED <<placed, plan, quota, teaches, pc, target>>

CreateProgram(p)        == Create(p)
CreateCourse(c)         == Create(c)
CreateAcademicPeriod(t) == Create(t)

\* A foreign key names a row that exists, deleted or not; the insert waits for
\* who has it locked FOR UPDATE.
Refers(x) == row[x] # "none" /\ RowFree(x)

CreateSection(s, c, t) ==
  /\ row[s] = "none" /\ Refers(c) /\ Refers(t)
  /\ row' = [row EXCEPT ![s] = "live"]
  /\ placed' = [placed EXCEPT ![s] = <<c, t>>]
  /\ UNCHANGED <<plan, quota, teaches, pc, target>>

AddCourseToProgram(p, c) ==
  /\ <<p, c>> \notin plan
  /\ Refers(p) /\ Refers(c)
  /\ plan' = plan \cup {<<p, c>>}
  /\ UNCHANGED <<row, placed, quota, teaches, pc, target>>

RemoveCourseFromProgram(p, c) ==
  /\ <<p, c>> \in plan
  /\ plan' = plan \ {<<p, c>>}
  /\ UNCHANGED <<row, placed, quota, teaches, pc, target>>

\* UpsertProgramQuota: a new row checks its foreign key; DO UPDATE of the row
\* that is there, deleted or not, leaves program_id alone and checks nothing.
CreateProgramQuota(p, y) ==
  /\ quota[p][y] = "none" => Refers(p)
  /\ quota' = [quota EXCEPT ![p][y] = "live"]
  /\ UNCHANGED <<row, placed, plan, teaches, pc, target>>

\* A live quota moves to a year that has no row, by the unique constraint.
UpdateProgramQuota(p, y, z) ==
  /\ quota[p][y] = "live" /\ quota[p][z] = "none"
  /\ quota' = [quota EXCEPT ![p][y] = "none", ![p][z] = "live"]
  /\ UNCHANGED <<row, placed, plan, teaches, pc, target>>

SoftDeleteProgramQuota(p, y) ==
  /\ quota[p][y] = "live"
  /\ quota' = [quota EXCEPT ![p][y] = "deleted"]
  /\ UNCHANGED <<row, placed, plan, teaches, pc, target>>

AssignTeacherToSection(s, u) ==
  /\ <<s, u>> \notin teaches
  /\ Refers(s)
  /\ teaches' = teaches \cup {<<s, u>>}
  /\ UNCHANGED <<row, placed, plan, quota, pc, target>>

RemoveTeacherFromSection(s, u) ==
  /\ <<s, u>> \in teaches
  /\ teaches' = teaches \ {<<s, u>>}
  /\ UNCHANGED <<row, placed, plan, quota, pc, target>>
-------------------------------------------------------------------------------
Next ==
  \/ \E d \in Calls :
       \/ DeleteProgramTx(d) \/ DeleteCourseTx(d)
       \/ DeleteAcademicPeriodTx(d) \/ DeleteSectionTx(d)
       \/ Abort(d)
  \/ \E p \in Programs : CreateProgram(p)
  \/ \E c \in Courses : CreateCourse(c)
  \/ \E t \in Periods : CreateAcademicPeriod(t)
  \/ \E s \in Sections :
       \/ \E c \in Courses, t \in Periods : CreateSection(s, c, t)
       \/ \E u \in Teachers :
            AssignTeacherToSection(s, u) \/ RemoveTeacherFromSection(s, u)
  \/ \E p \in Programs :
       \/ \E c \in Courses : AddCourseToProgram(p, c) \/ RemoveCourseFromProgram(p, c)
       \/ \E y \in Years :
            \/ CreateProgramQuota(p, y) \/ SoftDeleteProgramQuota(p, y)
            \/ \E z \in Years : UpdateProgramQuota(p, y, z)

Spec == Init /\ [][Next]_vars
-------------------------------------------------------------------------------
(* Properties. *)

\* What the deletion of a row counts to be absent: the courses of a program,
\* the programs and the sections of a course, the sections of a period and the
\* teachers of a section ("a FOR UPDATE lock ... to prevent TOCTOU races").  The
\* quotas of a program are not among them: one that was soft-deleted comes back
\* without waiting for the program's lock, see CreateProgramQuota.
Bare(x) ==
  /\ x \in Programs => ProgramCourses(x) = {}
  /\ x \in Courses => CourseProgramAssociations(x) = {} /\ LiveSectionsByCourse(x) = {}
  /\ x \in Periods => LiveSectionsByPeriod(x) = {}
  /\ x \in Sections => SectionTeachers(x) = {}

\* A row is bare when it is soft-deleted, whatever was inserted while its deletion
\* counted.
DeletedWhenBare ==
  [][\A x \in Parents : row[x] = "live" /\ row'[x] = "deleted" => Bare(x)]_vars

\* What DeletedWhenBare rests on: a row is locked by one deletion at a time, is
\* live while locked, and what has been counted stays away.
RowMutex ==
  \A d, e \in Calls : d # e /\ target[d] # None => target[d] # target[e]

LockedLive == \A d \in Calls : target[d] # None => row[target[d]] = "live"

CountedStays ==
  \A d \in Calls :
    /\ pc[d] = "second" /\ target[d] \in Programs => ProgramCourses(target[d]) = {}
    /\ pc[d] = "second" /\ target[d] \in Courses =>
         CourseProgramAssociations(target[d]) = {}
    /\ pc[d] = "second" => target[d] \in Programs \cup Courses
    /\ pc[d] = "delete" => Bare(target[d])

IInv == TypeOK /\ RowMutex /\ LockedLive /\ CountedStays
===============================================================================
