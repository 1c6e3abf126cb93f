---------------------------- MODULE LicenseCopy ----------------------------
(***************************************************************************)
(* The output half of src/scripts/generate_third_party_notices.py:        *)
(* write_notices, copy_license_files and its helpers (lines 209-348), run  *)
(* by main (lines 370-381) after the dependency lists are built, and run   *)
(* again later on the same checked-in tree third_party/licenses/.          *)
(*                                                                         *)
(* A package is [name, version, lic]: name and version are sequences of   *)
(* characters, lic the file name of its license_path ("" when none was    *)
(* found).  A directory is a set of files <<file name, content>>; the      *)
(* content says where the file came from: Dep(p) the license of package p, *)
(* <<"manual", n>> the manual file n, "rclone" the text curl fetched,      *)
(* "stale" a file of an earlier run.                                       *)
(***************************************************************************)
EXTENDS Naturals, Sequences, SequencesExt

CONSTANTS
    GoLists,       \* the parse_go_modules results a run may see
    RuntimeLists,  \* the npm runtime lists a run may see
    DevLists,      \* the npm dev-only lists a run may see
    ManualPool,    \* dir -> the files third_party/licenses-manual/<dir> may hold
    StalePool,     \* dir -> the files an earlier tree may hold
    Alnum,         \* the letters and digits the names are spelt with
    Args,          \* the arguments a command line may hold
    MaxArgs,       \* the longest command line considered
    MaxRuns        \* bound on the runs of the script

ASSUME MaxRunsAssumption == MaxRuns \in Nat \ {0}

Dirs == {"go", "npm", "external"}

\* The name of the fetched rclone license (line 293).
RcloneFile == <<"rclone-LICENSE">>

VARIABLES
    pc,          \* the next step of main / copy_license_files
    go,          \* go_modules
    runtime,     \* npm_runtime
    devPkgs,     \* npm_dev
    argv,        \* sys.argv[1:]
    includeDev,  \* args["include_dev"]
    curl,        \* what `curl -fsSL` does: "ok", "fail" or "missing"
    manual,      \* dir -> the files of the manual directory
    notices,     \* the packages THIRD_PARTY_NOTICES.md lists
    dir,         \* dir -> the files of third_party/licenses/<dir>
    k,           \* the next index of the loop running
    seen,        \* seen
    hadRclone,   \* history: the tree held rclone-LICENSE when the run began
    runs         \* runs of the script so far

vars == <<pc, go, runtime, devPkgs, argv, includeDev, curl, manual, notices, dir,
          k, seen, hadRclone, runs>>

-----------------------------------------------------------------------------
(* Helpers translated from the code.                                       *)

\* sanitize_identifier (lines 346-348): drop "@", turn "/" and every other
\* character outside [A-Za-z0-9._+-] into "_".
SanitizeIdentifier(s) ==
    LET t == SelectSeq(s, LAMBDA c : c # "@")
    IN [j \in 1..Len(t) |->
          IF t[j] \in Alnum \cup {".", "_", "+", "-"} THEN t[j] ELSE "_"]

\* The f"{name}@{version}-" of lines 316 and 343.
Prefix(p) ==
    SanitizeIdentifier(p.name) \o <<"@">> \o SanitizeIdentifier(p.version) \o <<"-">>

\* format_license_filename (lines 342-343).
FormatLicenseFilename(p) == Prefix(p) \o <<p.lic>>

\* The text of package p's own license file.
Dep(p) == <<"dep", p.name, p.version>>

Names(d) == {f[1] : f \in d}

\* parse_args (lines 351-367): None when an argument is not one of the two
\* flags (-h and --help included); else whether the last flag given is
\* --include-dev.
ParseArgsValid(a) ==
    \A j \in 1..Len(a) : a[j] \in {"--include-dev", "--runtime-only"}

ParseArgsIncludeDev(a) == Len(a) > 0 /\ Last(a) = "--include-dev"

\* Mutant of Packages: the dev-only packages are copied without
\* --include-dev.
PackagesWithDev == runtime \o devPkgs

\* `packages` of line 281.
Packages == IF includeDev THEN runtime \o devPkgs ELSE runtime

\* The list the loop, or copy_manual_licenses, of directory d walks.
ListOf(d) == IF d = "go" THEN go ELSE Packages

\* shutil.copy2 of each of files into directory d: a file of the same name
\* is replaced.
Install(d, files) == {f \in dir[d] : f[1] \notin Names(files)} \cup files

Steps == {"start", "notices", "reset", "go", "npm", "rclone", "manual_go",
          "manual_npm", "manual_external", "done", "aborted", "exited"}

TypeOK ==
    /\ pc \in Steps
    /\ go \in GoLists /\ runtime \in RuntimeLists /\ devPkgs \in DevLists
    /\ argv \in BoundedSeq(Args, MaxArgs)
    /\ includeDev \in BOOLEAN
    /\ curl \in {"ok", "fail", "missing"}
    /\ \A d \in Dirs : manual[d] \subseteq ManualPool[d]
    /\ DOMAIN dir = Dirs
    /\ k \in Nat
    /\ hadRclone \in BOOLEAN
    /\ runs \in 1..MaxRuns

\* The inputs of one run: the dependency lists, the command line, and
\* what curl will do.
ChooseInputs ==
    /\ go' \in GoLists
    /\ runtime' \in RuntimeLists
    /\ devPkgs' \in DevLists
    /\ argv' \in BoundedSeq(Args, MaxArgs)
    /\ curl' \in {"ok", "fail", "missing"}

\* A first run on a tree left by some earlier version of the script, with
\* whatever manual licenses the repository holds.
Init ==
    /\ go \in GoLists
    /\ runtime \in RuntimeLists
    /\ devPkgs \in DevLists
    /\ argv \in BoundedSeq(Args, MaxArgs)
    /\ curl \in {"ok", "fail", "missing"}
    /\ includeDev = FALSE
    /\ manual \in {m \in [Dirs -> SUBSET UNION {ManualPool[d] : d \in Dirs}] :
                      \A d \in Dirs : m[d] \subseteq ManualPool[d]}
    /\ dir \in {t \in [Dirs -> SUBSET UNION {StalePool[d] : d \in Dirs}] :
                   \A d \in Dirs : t[d] \subseteq StalePool[d]}
    /\ pc = "start"
    /\ notices = {}
    /\ k = 1
    /\ seen = {}
    /\ hadRclone = FALSE
    /\ runs = 1

-----------------------------------------------------------------------------
(* The steps of main and copy_license_files.                               *)

\* main, lines 374-376: a bad command line ends the script with status 1.
Start ==
    /\ pc = "start"
    /\ IF ParseArgsValid(argv)
         THEN pc' = "notices" /\ includeDev' = ParseArgsIncludeDev(argv)
         ELSE pc' = "exited" /\ UNCHANGED includeDev
    /\ UNCHANGED <<go, runtime, devPkgs, argv, curl, manual, notices, dir, k,
                   seen, hadRclone, runs>>

\* write_notices (lines 209-256, called at line 379): the notices list the
\* Go modules, the runtime packages, and the dev-only ones with
\* --include-dev.
WriteNotices ==
    /\ pc = "notices"
    /\ notices' = Range(go) \cup Range(runtime)
                    \cup (IF includeDev THEN Range(devPkgs) ELSE {})
    /\ pc' = "reset"
    /\ UNCHANGED <<go, runtime, devPkgs, argv, includeDev, curl, manual, dir,
                   k, seen, hadRclone, runs>>

\* Mutant of ResetDirs: reset_dir without its shutil.rmtree.
ResetDirsNoRemove ==
    /\ pc = "reset"
    /\ hadRclone' = (RcloneFile \in Names(dir["external"]))
    /\ pc' = "go" /\ k' = 1 /\ seen' = {}
    /\ UNCHANGED <<go, runtime, devPkgs, argv, includeDev, curl, manual,
                   notices, dir, runs>>

\* reset_dir (lines 306-309) of the three directories (lines 265-267).
ResetDirs ==
    /\ pc = "reset"
    /\ hadRclone' = (RcloneFile \in Names(dir["external"]))
    /\ dir' = [d \in Dirs |-> {}]
    /\ pc' = "go" /\ k' = 1 /\ seen' = {}
    /\ UNCHANGED <<go, runtime, devPkgs, argv, includeDev, curl, manual,
                   notices, runs>>

\* Mutant of Skipped: the `dest_name in seen` check is missing.
SkippedNoSeen(p) == p.lic = ""

\* Lines 272-273, 276-277 (and 284-285, 288-289): no license file, or a
\* file of that name already copied in this run, Go or npm.
Skipped(p) == p.lic = "" \/ FormatLicenseFilename(p) \in seen

\* One iteration of the Go loop (lines 270-279) or of the npm loop (lines
\* 281-291).
CopyLicense(d) ==
    /\ pc = d
    /\ k <= Len(ListOf(d))
    /\ LET p == ListOf(d)[k]  n == FormatLicenseFilename(p) IN
         IF Skipped(p) THEN UNCHANGED <<dir, seen>>
         ELSE /\ dir' = [dir EXCEPT ![d] = Install(d, {<<n, Dep(p)>>})]
              /\ seen' = seen \cup {n}
    /\ k' = k + 1
    /\ UNCHANGED <<pc, go, runtime, devPkgs, argv, includeDev, curl, manual,
                   notices, hadRclone, runs>>

\* The end of the Go loop, then of the npm loop.
LoopDone(d, nxt) ==
    /\ pc = d
    /\ k > Len(ListOf(d))
    /\ pc' = nxt /\ k' = 1
    /\ UNCHANGED <<go, runtime, devPkgs, argv, includeDev, curl, manual,
                   notices, dir, seen, hadRclone, runs>>

\* Lines 293-299: fetch the rclone license unless the file exists.  A
\* failing curl is ignored; a missing curl binary raises FileNotFoundError,
\* which nothing catches.
FetchRclone ==
    /\ pc = "rclone"
    /\ IF RcloneFile \in Names(dir["external"]) \/ curl = "fail"
         THEN pc' = "manual_go" /\ UNCHANGED dir
       ELSE IF curl = "ok"
         THEN /\ dir' = [dir EXCEPT !["external"] =
                            Install("external", {<<RcloneFile, "rclone">>})]
              /\ pc' = "manual_go"
       ELSE pc' = "aborted" /\ UNCHANGED dir
    /\ UNCHANGED <<go, runtime, devPkgs, argv, includeDev, curl, manual,
                   notices, k, seen, hadRclone, runs>>

\* Mutant of ManualTaken: the `dest.exists()` check of lines 325-326 is
\* missing, so a manual file replaces a copied one.
ManualTakenOverwrites(d) ==
    {m \in manual[d] : \E p \in Range(ListOf(d)) : IsPrefix(Prefix(p), m)}

\* The manual files copy_manual_licenses (lines 312-327) takes: those
\* named with the prefix of a package of the list, unless the target
\* directory already holds a file of that name.  A missing manual
\* directory, or an empty list, takes nothing.
ManualTaken(d) ==
    {m \in manual[d] : /\ \E p \in Range(ListOf(d)) : IsPrefix(Prefix(p), m)
                       /\ m \notin Names(dir[d])}

\* copy_manual_licenses for Go (line 301), then for npm (line 302).
CopyManual(d, nxt) ==
    /\ pc = "manual_" \o d
    /\ dir' = [dir EXCEPT ![d] = Install(d, {<<m, <<"manual", m>>>> : m \in ManualTaken(d)})]
    /\ pc' = nxt
    /\ UNCHANGED <<go, runtime, devPkgs, argv, includeDev, curl, manual,
                   notices, k, seen, hadRclone, runs>>

\* copy_manual_external_licenses (lines 330-339, called at line 303): every
\* manual file whose name is not taken yet; then main returns 0.
CopyManualExternal ==
    /\ pc = "manual_external"
    /\ dir' = [dir EXCEPT !["external"] =
                  @ \cup {<<m, <<"manual", m>>>> :
                            m \in manual["external"] \ Names(@)}]
    /\ pc' = "done"
    /\ UNCHANGED <<go, runtime, devPkgs, argv, includeDev, curl, manual,
                   notices, k, seen, hadRclone, runs>>

\* The script is run again on the tree the last run left, with new
\* dependency lists, a new command line and a new network.
Rerun ==
    /\ pc \in {"done", "aborted", "exited"}
    /\ runs < MaxRuns
    /\ ChooseInputs
    /\ pc' = "start" /\ includeDev' = FALSE /\ k' = 1 /\ seen' = {}
    /\ runs' = runs + 1
    /\ UNCHANGED <<manual, notices, dir, hadRclone>>

Next ==
    \/ Start \/ WriteNotices \/ ResetDirs
    \/ \E d \in {"go", "npm"} : CopyLicense(d)
    \/ LoopDone("go", "npm") \/ LoopDone("npm", "rclone")
    \/ FetchRclone
    \/ CopyManual("go", "manual_npm") \/ CopyManual("npm", "manual_external")
    \/ CopyManualExternal
    \/ Rerun

Spec == Init /\ [][Next]_vars

-----------------------------------------------------------------------------
(***************************************************************************)
(* Reference: the licence tree a run should leave, stated on the lists at *)
(* once, and the properties.                                               *)
(***************************************************************************)

\* The Go modules, then the npm packages, tagged with their directory.
Tagged ==
    [j \in 1..Len(go) |-> <<"go", go[j]>>]
        \o [j \in 1..Len(Packages) |-> <<"npm", Packages[j]>>]

\* The entries whose license is copied: each has a license file and is the
\* first of the run to produce its file name.
Copied ==
    {j \in 1..Len(Tagged) :
        /\ Tagged[j][2].lic # ""
        /\ ~\E i \in 1..(j - 1) :
              /\ Tagged[i][2].lic # ""
              /\ FormatLicenseFilename(Tagged[i][2]) = FormatLicenseFilename(Tagged[j][2])}

OwnFiles(d) ==
    {<<FormatLicenseFilename(Tagged[j][2]), Dep(Tagged[j][2])>> :
        j \in {j \in Copied : Tagged[j][1] = d}}

ManualFiles(d) ==
    {<<m, <<"manual", m>>>> :
        m \in {m \in manual[d] : /\ \E p \in Range(ListOf(d)) : IsPrefix(Prefix(p), m)
                                 /\ m \notin Names(OwnFiles(d))}}

\* A finished run leaves in third_party/licenses/go and .../npm exactly the
\* first license of each file name, Go before npm, and the manual files of
\* listed packages whose names no copied license takes: nothing of an
\* earlier tree, and no manual file over a dependency's own license.
LicensesMatchLists ==
    pc = "done" =>
        \A d \in {"go", "npm"} : dir[d] = OwnFiles(d) \cup ManualFiles(d)

\* Every license text a finished run leaves under go/ and npm/ belongs to a
\* package THIRD_PARTY_NOTICES.md lists: the copied license of a listed
\* package or a manual file named for one (notices line 252: "License
\* texts are stored under third_party/licenses/").
NoticesCoverLicenses ==
    pc = "done" =>
        \A d \in {"go", "npm"} : \A f \in dir[d] :
            \/ \E p \in notices : f[2] = Dep(p)
            \/ f[2] = <<"manual", f[1]>> /\ \E p \in notices : IsPrefix(Prefix(p), f[1])

\* Every package the notices list with a license file has its license text
\* stored (notices line 252).
EveryLicenseStored ==
    pc = "done" =>
        \A p \in notices : p.lic # "" =>
            \E d \in {"go", "npm"} : \E f \in dir[d] : f[2] = Dep(p)

\* A run keeps the rclone license the tree held: the `if not
\* rclone_license.exists()` of line 294 means to fetch it only when it is
\* missing.
RcloneLicenseKept ==
    pc = "done" /\ hadRclone => RcloneFile \in Names(dir["external"])
=============================================================================
