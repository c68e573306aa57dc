------------------------------- MODULE MimeApps -------------------------------
(***************************************************************************)
(* desktop/mimeapps.go and mime.go: which application opens a type.  The   *)
(* user's mimeapps.list is edited by hand and by other programs, so that a *)
(* line may stand anywhere: headers, keys and the rest come in any order   *)
(* and more than once.  SetDefaults reads it, renders it anew and renames  *)
(* the result over it; GetDefault and AppsForMime read it with the files   *)
(* of the system.  Blank lines are left out: they are layout.              *)
(***************************************************************************)
EXTENDS Naturals, SequencesExt

CONSTANTS Writers,     \* callers of SetDefaults
          Types, Apps,
          Alias,       \* the alias tables: type -> the type it stands for, itself if none
          Parents,     \*                   type -> sequence of its parents
          Installed,   \* type -> sequence of the visible applications that claim it
          Files,       \* bound: the files the user may have
          Systems,     \* bound: what the files of the system may say
          TypeSets,    \* bound: the types of one call of SetDefaults
          MaxSets,     \* bound: calls of SetDefaults
          None

VARIABLES
  file,      \* the user's mimeapps.list
  system,    \* what the files of the system say, merged, mimeinfo.cache among them
  shared,    \* the writers are goroutines of one process, not processes
  call,      \* each writer: what it sets and the file it read
  sets,
  want,      \* history: the last application set for a type
  spoiled    \* history: a process renamed over what another one had written

given == <<system, shared>>
vars  == <<file, given, call, sets, want, spoiled>>

Managed == {"Defaults", "Added", "Removed"}      \* the groups the program writes

Header(g)   == [head |-> g, key |-> None, apps |-> <<>>]
Entry(t, l) == [head |-> None, key |-> t, apps |-> l]
Comment     == [head |-> None, key |-> None, apps |-> <<>>]

-----------------------------------------------------------------------------
\* parseGroups: a group may be opened again; of two entries the first counts.
GroupAt(f, i) == LET heads == {j \in 1..i : f[j].head # None}
                 IN  IF heads = {} THEN None ELSE f[Max(heads)].head

EntriesOf(f, g, t) == {i \in DOMAIN f : f[i].key = t /\ GroupAt(f, i) = g}
Apply(f, g, t) == LET at == EntriesOf(f, g, t) IN IF at = {} THEN None ELSE f[Min(at)].apps

\* associationsFromData: of a list of defaults only the first one counts.
Associations(f) ==
  [Defaults |-> [t \in Types |-> LET l == Apply(f, "Defaults", t) IN IF l \in {None, <<>>} THEN None ELSE l[1]],
   Added    |-> [t \in Types |-> Apply(f, "Added", t)],
   Removed  |-> [t \in Types |-> Apply(f, "Removed", t)]]

\* The list without a.
Without(l, a) ==
  LET kept[n \in 0..Len(l)] ==
        IF n = 0 THEN <<>> ELSE IF l[n] = a THEN kept[n - 1] ELSE Append(kept[n - 1], l[n])
  IN  kept[Len(l)]

\* setDefaultAssociations, for one type after the other.
Update(assoc, ts, a) ==
  [Defaults |-> [t \in Types |-> IF t \in ts THEN a ELSE assoc.Defaults[t]],
   Added    |-> [t \in Types |-> LET l == assoc.Added[t] IN
                   IF t \notin ts THEN l ELSE IF l = None THEN <<a>>
                   ELSE IF Contains(l, a) THEN l ELSE Append(l, a)],
   Removed  |-> [t \in Types |-> LET l == assoc.Removed[t] IN
                   IF t \notin ts \/ l = None THEN l
                   ELSE IF ToSet(l) \subseteq {a} THEN None
                   ELSE Without(l, a)]]

\* managedGroups: the entries the file is to have.
ToWrite(assoc, g, t) ==
  IF g # "Defaults" THEN assoc[g][t]
  ELSE IF assoc.Defaults[t] = None THEN None ELSE <<assoc.Defaults[t]>>

\* renderMimeapps.  What is written is what out already has.
Missing(out, assoc, g) ==
  IF g \in Managed THEN {t \in Types : ToWrite(assoc, g, t) # None /\ EntriesOf(out, g, t) = {}} ELSE {}

FlushMissing(out, assoc, g) ==
  out \o [i \in 1..Cardinality(Missing(out, assoc, g)) |->
            LET t == SetToSeq(Missing(out, assoc, g))[i] IN Entry(t, ToWrite(assoc, g, t))]

OnlyComments(group, line) == line.key = None   \* faulty: the keys of every group are the program's

Verbatim(group, line) == group \notin Managed \/ line.key = None

RenderLine(out, line, assoc) ==
  LET current == GroupAt(out, Len(out)) IN
  CASE line.head # None -> Append(FlushMissing(out, assoc, current), line)
    [] line.head = None /\ Verbatim(current, line) -> Append(out, line)
    [] OTHER -> IF line.key \notin Missing(out, assoc, current) THEN out
                ELSE Append(out, Entry(line.key, ToWrite(assoc, current, line.key)))

AddGroup(out, assoc, g) ==
  IF Missing(out, assoc, g) = {} THEN out ELSE FlushMissing(Append(out, Header(g)), assoc, g)

\* The lines, each rendered to what came out of the ones before it.
Rendered(f, assoc) ==
  LET out[n \in 0..Len(f)] == IF n = 0 THEN <<>> ELSE RenderLine(out[n - 1], f[n], assoc)
  IN  out[Len(f)]

Render(f, assoc) ==
  LET lines == Rendered(f, assoc)
      body  == FlushMissing(lines, assoc, GroupAt(lines, Len(lines)))
  IN  AddGroup(AddGroup(AddGroup(body, assoc, "Defaults"), assoc, "Added"), assoc, "Removed")

-----------------------------------------------------------------------------
\* mergedAssociations: the user's file comes first.
ListOf(l) == IF l = None THEN <<>> ELSE l
Merged(f) ==
  LET user == Associations(f) IN
  [Defaults |-> [t \in Types |-> IF user.Defaults[t] # None THEN user.Defaults[t] ELSE system.Defaults[t]],
   Added    |-> [t \in Types |-> ListOf(user.Added[t]) \o ListOf(system.Added[t])],
   Removed  |-> [t \in Types |-> ToSet(ListOf(user.Removed[t]) \o ListOf(system.Removed[t]))]]

\* mimeChain: breadth first, each type once.  The types that wait to be looked
\* at are the end of the chain itself.
Visit(chain, parents) ==
  LET longer[n \in 0..Len(parents)] ==
        IF n = 0 THEN chain
        ELSE IF Contains(longer[n - 1], parents[n]) THEN longer[n - 1]
        ELSE Append(longer[n - 1], parents[n])
  IN  longer[Len(parents)]

Chain(t) ==
  LET grown[n \in 0..Cardinality(Types)] ==  \* once the first n types have been looked at
        IF n = 0 THEN <<Alias[t]>>
        ELSE LET chain == grown[n - 1] IN
             IF n > Len(chain) THEN chain ELSE Visit(chain, Parents[chain[n]])
  IN  grown[Cardinality(Types)]

\* The candidates in the order GetDefault looks at them, each with the type
\* it is a candidate for.
Along(t, apps) ==
  LET chain == Chain(t) IN
  FlattenSeq([i \in DOMAIN chain |-> [j \in DOMAIN apps[chain[i]] |-> <<chain[i], apps[chain[i]][j]>>]])
Default(m) == [t \in Types |-> IF m.Defaults[t] = None THEN <<>> ELSE <<m.Defaults[t]>>]

Candidates(m, t) ==
  Along(t, Default(m)) \o Along(t, m.Added) \o Along(t, system.Cache) \o Along(t, Installed)

GetDefault(t) ==
  LET m    == Merged(file)
      all  == Candidates(m, t)
      left == {i \in DOMAIN all : all[i][2] \notin m.Removed[all[i][1]]}
  IN  IF left = {} THEN None ELSE all[Min(left)][2]

\* AppsForMime: what is removed for one type of the chain is for all.
RemovedAlong(m, t) == UNION {m.Removed[u] : u \in ToSet(Chain(t))}
AppsForMime(t) ==
  LET m == Merged(file) IN {c[2] : c \in ToSet(Candidates(m, t))} \ RemovedAlong(m, t)

-----------------------------------------------------------------------------
Idle == [at |-> "idle", types |-> {}, app |-> None, copy |-> <<>>]

Set(w, ts, a) ==
  /\ call[w].at = "idle" /\ sets < MaxSets
  /\ call' = [call EXCEPT ![w] = [Idle EXCEPT !.at = "lock", !.types = ts, !.app = a]]
  /\ sets' = sets + 1 /\ UNCHANGED <<file, given, want, spoiled>>

\* writeUserMimeapps: a mutex, for the goroutines of one process.
NoMutex == TRUE   \* faulty: goroutines read and rename as they like

MutexFree == shared => \A w \in Writers : call[w].at # "rename"

Read(w) ==
  /\ call[w].at = "lock" /\ MutexFree
  /\ call' = [call EXCEPT ![w].at = "rename", ![w].copy = file]
  /\ UNCHANGED <<file, given, sets, want, spoiled>>

\* atomicWriteFile: a temporary file of its own, renamed.
Rename(w) ==
  /\ call[w].at = "rename"
  /\ file' = Render(call[w].copy, Update(Associations(call[w].copy), call[w].types, call[w].app))
  /\ call' = [call EXCEPT ![w] = Idle]
  /\ want' = [t \in Types |-> IF t \in call[w].types THEN call[w].app ELSE want[t]]
  /\ spoiled' = (spoiled \/ (~shared /\ call[w].copy # file))
  /\ UNCHANGED <<given, sets>>

\* An error on the way, or the end of the process: the file is as it was.
WriteFails(w) ==
  /\ call[w].at \in {"lock", "rename"}
  /\ call' = [call EXCEPT ![w] = Idle]
  /\ UNCHANGED <<file, given, sets, want, spoiled>>

Init ==
  /\ file \in Files /\ system \in Systems
  /\ shared \in BOOLEAN
  /\ call = [w \in Writers |-> Idle] /\ sets = 0
  /\ want = [t \in Types |-> None] /\ spoiled = FALSE

Next == \E w \in Writers :
          \/ \E ts \in TypeSets, a \in Apps : Set(w, ts, a)
          \/ Read(w) \/ Rename(w) \/ WriteFails(w)

Spec == Init /\ [][Next]_vars

-----------------------------------------------------------------------------
\* A header has no key.
Line == {l \in [head : Managed \cup {"Other", None}, key : Types \cup {None}, apps : Seq(Apps)] :
           l.head # None => l.key = None}

TypeOK ==
  /\ file \in Seq(Line)
  /\ \A w \in Writers : /\ call[w].at \in {"idle", "lock", "rename"} /\ call[w].types \subseteq Types
                         /\ call[w].app \in Apps \cup {None}
  /\ sets \in 0..MaxSets /\ want \in [Types -> Apps \cup {None}] /\ {shared, spoiled} \subseteq BOOLEAN

\* What SetDefaults has set is what the next reader finds, whatever stood in
\* the file and whatever other goroutines set at the same time; it is the
\* default of the type (and, under its own name, of its aliases) unless the
\* system took the application away from it, and one of the applications that
\* AppsForMime lists, unless it was taken away from a type further up.
\* Another process may spoil it.
Sticks ==
  ~spoiled => \A t \in Types : want[t] # None =>
    /\ Associations(file).Defaults[t] = want[t]
    /\ Alias[t] = t /\ want[t] \notin ToSet(ListOf(system.Removed[t]))
         => \A u \in Types : Alias[u] = t =>
              /\ GetDefault(u) = want[t]
              /\ want[t] \in AppsForMime(u) \cup RemovedAlong(Merged(file), u)

\* Lines that are not the program's, in their order.
Foreign(f) ==
  LET others[n \in 0..Len(f)] ==
        IF n = 0 THEN <<>>
        ELSE IF GroupAt(f, n) \notin Managed \/ f[n] = Comment
             THEN Append(others[n - 1], <<f[n], GroupAt(f, n)>>) ELSE others[n - 1]
  IN  others[Len(f)]

\* A write, of one process or many, changes nothing but what it was asked to:
\* the lines of others are kept, and other types keep what they had.
ChangesOnly ==
  [][\A w \in Writers : call[w].at = "rename" /\ file' # file /\ call'[w] = Idle =>
       /\ Foreign(file') = Foreign(call[w].copy)
       /\ \A t \in Types \ call[w].types, g \in Managed :
            Associations(file')[g][t] = Associations(call[w].copy)[g][t]]_vars
=============================================================================
