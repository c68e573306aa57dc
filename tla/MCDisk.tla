------------------------------- MODULE MCDisk -------------------------------
(* Four components whose processes know of each other by what lies on the    *)
(* disk, checked in one run: a behaviour is one of Shell, Trash, MimeApps or *)
(* Thumbs.  Processes play the same part, and so do revisions, paths and     *)
(* applications.                                                             *)
EXTENDS Trash, SequencesExt, TLC

CONSTANTS Displays, Revs, MaxRuns, MaxKills,   \* of Shell
          Jobs, Sizes, MaxTime, MaxWrites,       \* of Thumbs
          Types, Alias, Parents, Installed, Files, Systems, TypeSets, MaxSets   \* of MimeApps
VARIABLES which, launch, pidf, sess, ui, state, tree, tmp, kills, torn,
          file, system, shared, setting, sets, want, overwritten,
          picture, listed, made, job

\* None is nothing else, and the bounds are numbers.
ASSUME ShellAssumption == MaxKills \in Nat /\ None \notin Revs \cup {"pid"}
ASSUME ThumbAssumption == {MaxTime, MaxWrites} \subseteq Nat \ {0} /\ None \notin [sec : Nat, content : Nat]

shellvars == <<launch, pidf, sess, ui, state, tree, tmp, kills, torn>>
U == INSTANCE Shell

mimevars == <<file, system, shared, setting, sets, want, overwritten>>
M == INSTANCE MimeApps WITH Writers <- Procs, Apps <- Paths, call <- setting, spoiled <- overwritten

\* The tables of MimeApps are tables, its files lines, and None none of what they hold.
ASSUME MimeAssumption ==
  /\ IsFiniteSet(Types) /\ MaxSets \in Nat /\ TypeSets \subseteq SUBSET Types
  /\ Alias \in [Types -> Types] /\ Parents \in [Types -> Seq(Types)]
  /\ Installed \in [Types -> Seq(Paths)]
  /\ Files \subseteq Seq(M!Line)
  /\ Systems \subseteq [Defaults : [Types -> Paths \cup {None}], Cache : [Types -> Seq(Paths)],
                       Added : [Types -> Seq(Paths) \cup {None}], Removed : [Types -> Seq(Paths) \cup {None}]]
  /\ None \notin Types \cup Paths \cup Seq(Paths) \cup M!Managed \cup {"Other"}

\* For the run: a type with an alias and a subtype, as in the tables of
\* shared-mime-info; short files, and what the files of the system may say:
\* they name an application, or take one away.
MCTypes   == {"html", "xhtml", "htm"}
MCAlias   == [t \in Types |-> IF t = "htm" THEN "html" ELSE t]
MCParents == [t \in Types |-> IF t = "xhtml" THEN <<"html">> ELSE <<>>]
MCInstalled == [t \in Types |-> <<>>]
MCTypeSets  == {{"html"}, {"xhtml"}, {"html", "htm"}}

Row(head, key, apps) == [head |-> head, key |-> key, apps |-> apps]
Rows == {Row(g, None, <<>>) : g \in {"Defaults", "Removed", "Other", None}}
          \cup {Row(None, "html", <<a, b>>) : a, b \in Paths}
MCFiles == SeqOf(Rows, 1) \cup {<<Row("Defaults", None, <<>>)>> \o rows : rows \in SeqOf(Rows, 2)}
             \cup {<<Row("Removed", None, <<>>)>> \o rows : rows \in SeqOf(Rows, 1)}

Empty  == [t \in Types |-> None]
Silent == [Defaults |-> Empty, Added |-> Empty, Removed |-> Empty, Cache |-> [t \in Types |-> <<>>]]
MCSystems == {[Silent EXCEPT !.Cache = [t \in Types |-> <<a>>]] : a \in Paths}
               \cup {[Silent EXCEPT !.Removed["html"] = <<a>>] : a \in Paths}

\* A behaviour of MimeApps begins with any file, the others with none.
NoMime == /\ file = <<>> /\ system = None /\ shared = FALSE /\ setting = [p \in Procs |-> M!Idle]
          /\ sets = 0 /\ want = None /\ overwritten = FALSE

thumbvars == <<picture, listed, made, job>>
H == INSTANCE Thumbs WITH file <- picture

MCInit == /\ Init /\ U!Init /\ H!Init /\ which \in {"trash", "shell", "mime", "thumbs"}
          /\ IF which = "mime" THEN M!Init ELSE NoMime

MCNext == \/ which = "trash" /\ Next /\ UNCHANGED <<which, shellvars, mimevars, thumbvars>>
          \/ which = "shell" /\ U!Next /\ UNCHANGED <<which, vars, mimevars, thumbvars>>
          \/ which = "mime" /\ M!Next /\ UNCHANGED <<which, vars, shellvars, thumbvars>>
          \/ which = "thumbs" /\ H!Next /\ UNCHANGED <<which, vars, shellvars, mimevars>>
MCSpec == MCInit /\ [][MCNext]_<<which, vars, shellvars, mimevars, thumbvars>>

\* The run takes the same model values for Revs as for Paths, so that the
\* group stays small.
Symmetry == Permutations(Procs) \cup Permutations(Paths)

-----------------------------------------------------------------------------
\* The files and the processes of pidfile.go, shellfs.go, trash.go, mimeapps.go
\* and thumbs.go keep their shape, and no two calls of trash.go are at work on one name.
TypesOK == CASE which = "shell" -> U!TypeOK
             [] which = "trash" -> TypeOK /\ OwnNames
             [] which = "mime"  -> M!TypeOK
             [] which = "thumbs" -> H!TypeOK

\* Recoverable, NothingLost and EmptyClears are those of Trash.

\* supervise.go and shellfs.go: the instances that were running when a process
\* began keep their trees.
TreeKept == U!TreeKept

\* mimeapps.go and mime.go: a default that was set is the one found.
Sticks == which = "mime" => M!Sticks

\* mimeapps.go: nothing else in the file changes.
ChangesOnly == M!ChangesOnly

\* thumbs.go: a thumbnail that counts is of the file as it is.
ThumbsTrue == H!ThumbsTrue
=============================================================================
