------------------------------- MODULE Settings -------------------------------
(* Session defaults: the vendor, model and effort a session gets.  config.yaml holds
   the home's, repos.yaml each repo's; the Settings screens edit both over HTTP, one
   row per file entry, `agile repo add` replaces a registry entry, the operator may
   edit the files by hand, and a picker is prefilled with what a stream resolves to
   and attaches with what it shows.  An opening of a screen, or of a picker, is an
   element of Page, or of Pick.  A field left empty is None. *)
EXTENDS Naturals

CONSTANTS
  Repo, Page, Pick,
  StreamRepo,          \* the repo of the stream a picker is for, or NoRepo
  Vendor, Model, Effort,
  Known,               \* SESSION_VENDORS: the vendors a session can have
  BuiltinDefaults,             \* BUILTIN_SESSION_DEFAULTS
  ProviderModel,       \* the name a provider gives its own default model
  None, NoRepo, Home, Absent,
  MaxEdits             \* bound on what is typed, chosen and edited

VARIABLES
  home,      \* config.yaml's default_vendor, default_model, default_effort
  repos,     \* repos.yaml: each repo's three fields, or Absent
  adding,    \* per repo, the registry `repo add` will write, or None
  status,    \* what a page shows of the files, or None
  value,     \* what each row of a page shows in its fields
  save,      \* how far the row's save is
  sent,      \* the fields it sent
  answer,    \* the files as its answer tells them
  saved,     \* the rows that show `saved`
  picked,    \* how far a picker is
  choice,    \* its three fields
  flags,     \* what Start sent
  got,       \* what the session got, or None
  edits,
  wrote,     \* history: the page whose save last wrote a row, or None
  mounted,   \* history: what a row's fields were when it appeared
  seen       \* history: the files a picker was prefilled from, and what it resolved to

files == <<home, repos>>
pages == <<status, value, save, sent, answer, saved, mounted>>
pickers == <<picked, choice, flags, got, seen>>
settingsVars == <<files, adding, pages, pickers, edits, wrote>>

Fields == [vendor : Vendor \cup {None}, model : Model \cup {None}, effort : Effort \cup {None}]
Empty == [vendor |-> None, model |-> None, effort |-> None]
Registry == [Repo -> Fields \cup {Absent}]
Row == Repo \cup {Home}

Edit == edits < MaxEdits /\ edits' = edits + 1

\* The fields a row of the files has, or Absent.
At(f, row) == IF row = Home THEN f[1] ELSE f[2][row]

-------------------------------------------------------------------------------
(* The order: the flags, the repo's entry, the home's, the built-in *)

FirstNamed(a, b, c) == IF a # None THEN a ELSE IF b # None THEN b ELSE c

resolveSessionDefaults(named, repo, hm) ==
  LET vendor == FirstNamed(named.vendor, repo.vendor, hm.vendor)
      v == IF vendor = None THEN BuiltinDefaults.vendor ELSE vendor
      model == FirstNamed(named.model, repo.model, hm.model)
      effort == FirstNamed(named.effort, repo.effort, hm.effort)
  IN [vendor |-> v,
      model |-> IF model = None /\ v = BuiltinDefaults.vendor THEN BuiltinDefaults.model ELSE model,
      effort |-> IF effort = None THEN BuiltinDefaults.effort ELSE effort]

\* The entry of a picker's repo; a stream without a repo has none.
EntryOf(k, f) ==
  IF StreamRepo[k] = NoRepo \/ f[2][StreamRepo[k]] = Absent THEN Empty ELSE f[2][StreamRepo[k]]

\* What the picker shows, and what the daemon starts a session with.
resolvedFor(k, f) == resolveSessionDefaults(Empty, EntryOf(k, f), f[1])

Settled(named, k) ==
  LET r == resolveSessionDefaults(named, EntryOf(k, files), home)
  IN [r EXCEPT !.model = IF @ = None THEN ProviderModel ELSE @]

SettingsInit ==
  /\ home = Empty /\ repos \in [Repo -> {Empty, Absent}] /\ adding = [r \in Repo |-> None]
  /\ status = [p \in Page |-> None] /\ saved = {}
  /\ value = [x \in Page \X Row |-> Empty] /\ mounted = [x \in Page \X Row |-> Empty]
  /\ save = [x \in Page \X Row |-> "no"]
  /\ sent = [x \in Page \X Row |-> Empty] /\ answer = [x \in Page \X Row |-> None]
  /\ picked = [k \in Pick |-> "closed"] /\ choice = [k \in Pick |-> Empty]
  /\ flags = [k \in Pick |-> Empty] /\ got = [k \in Pick |-> None]
  /\ seen = [k \in Pick |-> None]
  /\ edits = 0 /\ wrote = [row \in Row |-> None]

-------------------------------------------------------------------------------
(* A Settings screen *)

\* A row reads its fields when it appears and never again.
Show(p, f) ==
  LET fresh(row) == At(f, row) # Absent /\ (status[p] = None \/ At(status[p], row) = Absent)
      With(was) == [x \in Page \X Row |->
                      IF x[1] = p /\ fresh(x[2]) THEN At(f, x[2]) ELSE was[x]]
  IN /\ status' = [status EXCEPT ![p] = f]
     /\ value' = With(value) /\ mounted' = With(mounted)

OpenPage(p) ==
  /\ status[p] = None
  /\ Show(p, files)
  /\ UNCHANGED <<files, adding, save, sent, answer, saved, pickers, edits, wrote>>

RowShown(p, row) == status[p] # None /\ At(status[p], row) # Absent

\* The fields stay open while a save is on its way.
TypeInto(p, row) ==
  /\ Edit
  /\ RowShown(p, row)
  /\ \E v \in Fields : value' = [value EXCEPT ![<<p, row>>] = v]
  /\ saved' = saved \ {<<p, row>>}
  /\ UNCHANGED <<files, adding, status, save, sent, answer, mounted, pickers, wrote>>

\* toPatch sends all three fields: null for an empty one.
Save(p, row) ==
  /\ RowShown(p, row) /\ save[<<p, row>>] = "no"
  /\ save' = [save EXCEPT ![<<p, row>>] = "sent"]
  /\ sent' = [sent EXCEPT ![<<p, row>>] = value[<<p, row>>]]
  /\ saved' = saved \ {<<p, row>>}
  /\ UNCHANGED <<files, adding, status, value, answer, mounted, pickers, edits, wrote>>

\* The store writes the file; a repo no longer registered is refused.
setSessionDefaults(p, row) ==
  /\ save[<<p, row>>] = "sent" /\ At(files, row) # Absent
  /\ save' = [save EXCEPT ![<<p, row>>] = "written"]
  /\ IF row = Home
     THEN home' = sent[<<p, row>>] /\ repos' = repos
     ELSE home' = home /\ repos' = [repos EXCEPT ![row] = sent[<<p, row>>]]
  /\ wrote' = [wrote EXCEPT ![row] = p]
  /\ UNCHANGED <<adding, status, value, sent, answer, saved, mounted, pickers, edits>>

Answer(p, row) ==
  /\ save[<<p, row>>] = "written"
  /\ save' = [save EXCEPT ![<<p, row>>] = "answered"]
  /\ answer' = [answer EXCEPT ![<<p, row>>] = files]
  /\ UNCHANGED <<files, adding, status, value, sent, saved, mounted, pickers, edits, wrote>>

Arrive(p, row) ==
  /\ save[<<p, row>>] = "answered"
  /\ Show(p, answer[<<p, row>>])
  /\ save' = [save EXCEPT ![<<p, row>>] = "no"]
  /\ saved' = saved \cup {<<p, row>>}
  /\ UNCHANGED <<files, adding, sent, answer, pickers, edits, wrote>>

\* Refused, or lost before or after the write: the row shows an error.
SaveFails(p, row) ==
  /\ save[<<p, row>>] # "no"
  /\ save' = [save EXCEPT ![<<p, row>>] = "no"]
  /\ UNCHANGED <<files, adding, status, value, sent, answer, saved, mounted, pickers, edits, wrote>>

-------------------------------------------------------------------------------
(* The files' other writers *)

\* addRepo reads the registry before its turn in the store's queue, and writes it whole.
ReadRegistry(r) ==
  /\ Edit
  /\ adding[r] = None
  /\ \E v \in Vendor \cup {None} :
       adding' = [adding EXCEPT ![r] = [repos EXCEPT ![r] = [Empty EXCEPT !.vendor = v]]]
  /\ UNCHANGED <<files, pages, pickers, wrote>>

putRepos(r) ==
  /\ adding[r] # None
  /\ repos' = adding[r]
  /\ adding' = [adding EXCEPT ![r] = None]
  /\ wrote' = [row \in Row |-> IF row = Home THEN wrote[row] ELSE None]
  /\ UNCHANGED <<home, pages, pickers, edits>>

EditByHand(row) ==
  /\ Edit
  /\ \E v \in Fields :
       IF row = Home THEN home' = v /\ repos' = repos
       ELSE home' = home /\ repos' = [repos EXCEPT ![row] = v]
  /\ wrote' = [wrote EXCEPT ![row] = None]
  /\ UNCHANGED <<adding, pages, pickers>>

-------------------------------------------------------------------------------
(* A picker *)

OpenPicker(k) ==
  /\ picked[k] = "closed"
  /\ picked' = [picked EXCEPT ![k] = "shown"]
  /\ choice' = [choice EXCEPT ![k] = resolvedFor(k, files)]
  /\ seen' = [seen EXCEPT ![k] = [files |-> files, resolved |-> resolvedFor(k, files)]]
  /\ UNCHANGED <<files, adding, pages, flags, got, edits, wrote>>

Choose(k) ==
  /\ Edit
  /\ picked[k] # "closed"
  /\ \E c \in Fields : c.vendor # None /\ c.effort # None /\ choice' = [choice EXCEPT ![k] = c]
  /\ UNCHANGED <<files, adding, pages, picked, flags, got, seen, wrote>>

Start(k) ==
  /\ picked[k] = "shown"
  /\ picked' = [picked EXCEPT ![k] = "starting"]
  /\ flags' = [flags EXCEPT ![k] = choice[k]]
  /\ UNCHANGED <<files, adding, pages, choice, got, seen, edits, wrote>>

\* Attach reads both files; a repo or a vendor it does not know is refused, and the
\* picker is there to be started again.
attach(k) ==
  /\ picked[k] = "starting"
  /\ LET known == (StreamRepo[k] # NoRepo => repos[StreamRepo[k]] # Absent)
                  /\ Settled(flags[k], k).vendor \in Known
     IN /\ picked' = [picked EXCEPT ![k] = IF known THEN "attached" ELSE "shown"]
        /\ got' = [got EXCEPT ![k] = IF known THEN Settled(flags[k], k) ELSE None]
  /\ UNCHANGED <<files, adding, pages, choice, flags, seen, edits, wrote>>

-------------------------------------------------------------------------------

SettingsNext ==
  \/ \E p \in Page : OpenPage(p)
  \/ \E p \in Page, row \in Row :
       \/ TypeInto(p, row) \/ Save(p, row) \/ setSessionDefaults(p, row)
       \/ Answer(p, row) \/ Arrive(p, row) \/ SaveFails(p, row)
  \/ \E r \in Repo : ReadRegistry(r) \/ putRepos(r)
  \/ \E row \in Row : EditByHand(row)
  \/ \E k \in Pick : OpenPicker(k) \/ Choose(k) \/ Start(k) \/ attach(k)

SettingsSpec == SettingsInit /\ [][SettingsNext]_settingsVars

-------------------------------------------------------------------------------
(* Properties *)

SavePhase == {"no", "sent", "written", "answered"}
Files == Fields \X Registry

\* Every variable has its type; what is attached is named in full.
SettingsTypeOK ==
  /\ files \in Files /\ adding \in [Repo -> Registry \cup {None}]
  /\ status \in [Page -> Files \cup {None}] /\ save \in [Page \X Row -> SavePhase]
  /\ value \in [Page \X Row -> Fields] /\ mounted \in [Page \X Row -> Fields]
  /\ sent \in [Page \X Row -> Fields] /\ answer \in [Page \X Row -> Files \cup {None}]
  /\ saved \in SUBSET (Page \X Row) /\ edits \in Nat
  /\ DOMAIN got = Pick /\ DOMAIN seen = Pick
  /\ picked \in [Pick -> {"closed", "shown", "starting", "attached"}]
  /\ choice \in [Pick -> Fields] /\ flags \in [Pick -> Fields]
  /\ wrote \in [Row -> Page \cup {None}]

\* What a row that shows `saved` has sent is in its file, unless something else wrote
\* that entry since: another screen, the operator, or a registry written by `repo add`.
SavedIsInFile ==
  \A p \in Page, row \in Row :
    <<p, row>> \in saved /\ wrote[row] = p => At(files, row) = sent[<<p, row>>]

\* "Start with no edits attaches exactly the default" (SessionPicker.tsx:9), as long as
\* the two files say what they said when the picker was filled.
UneditedIsDefault ==
  [][\A k \in Pick :
       attach(k) /\ got'[k] # None /\ flags[k] = seen[k].resolved /\ seen[k].files = files
         => got'[k] = Settled(Empty, k)]_settingsVars

\* Whatever was written between Start and attach, the session has the vendor, the model
\* and the effort its picker named.
GetsWhatItNamed ==
  \A k \in Pick : got[k] # None =>
    /\ got[k].vendor = flags[k].vendor /\ got[k].effort = flags[k].effort
    /\ flags[k].model # None => got[k].model = flags[k].model

-------------------------------------------------------------------------------
(* What TLC refutes *)

\* A row that shows `saved` shows what was saved.  (It was edited during the save.)
SavedIsShown ==
  \A p \in Page, row \in Row :
    <<p, row>> \in saved /\ wrote[row] = p => At(files, row) = value[<<p, row>>]

\* What a row that shows `saved` says it resolves to takes that save into account.
SavedIsResolved ==
  \A p \in Page, row \in Row :
    <<p, row>> \in saved /\ wrote[row] = p => At(status[p], row) = At(files, row)

\* A save leaves the fields its row's user never touched as they are in the file.
SaveKeepsTheRest ==
  [][\A p \in Page, row \in Row : setSessionDefaults(p, row) =>
       LET x == <<p, row>> IN
       \A f \in {"vendor", "model", "effort"} :
         sent[x][f] = mounted[x][f] => At(files', row)[f] = At(files, row)[f]]_settingsVars

\* `repo add` is additive (store.ts:609): it leaves the other entries alone.
AddIsAdditive ==
  [][\A r \in Repo : putRepos(r) => \A q \in Repo \ {r} : repos'[q] = repos[q]]_settingsVars

\* Start with no edits attaches the default.
StartIsDefault ==
  [][\A k \in Pick :
       attach(k) /\ got'[k] # None /\ flags[k] = seen[k].resolved
         => got'[k] = Settled(Empty, k)]_settingsVars
===============================================================================
