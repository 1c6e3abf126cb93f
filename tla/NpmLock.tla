------------------------------ MODULE NpmLock ------------------------------
(***************************************************************************)
(* parse_npm_packages and normalize_npm_license of                          *)
(* src/scripts/generate_third_party_notices.py (lines 141-207): merge the  *)
(* "packages" of frontend/package-lock.json by (name, version) and split   *)
(* them into runtime and dev-only lists.                                   *)
(*                                                                         *)
(* A lock entry is a record:                                               *)
(*   inModules  its key starts with "node_modules/" (the root entry "" and *)
(*              workspace links do not);                                   *)
(*   path       the chain of package folders of the key: <<p>> for         *)
(*              node_modules/p, <<p, q>> for node_modules/p/node_modules/q;*)
(*   name       its "name" field, NoName when absent (npm writes it only   *)
(*              for the root and for aliased packages);                    *)
(*   version, dev, license (the "license" string, "" when absent),         *)
(*   licenses   the legacy "licenses" field: Absent, a sequence of types   *)
(*              ("" for an item without one) or a [type |-> t] object;     *)
(*   licFile    find_license_file found a file in its folder.              *)
(* Package names are numbers, ordered as the strings they stand for.  A    *)
(* derived name is a sequence of them, the "/"-joined string.  A license   *)
(* expression is the sequence of its " OR "-joined parts, <<>> for "".     *)
(***************************************************************************)
EXTENDS Naturals, Sequences, SequencesExt

CONSTANTS
    Entries,   \* the lock entries a lock file may hold
    MaxLen,    \* the longest lock file considered
    NoName,    \* an absent "name"
    Absent     \* an absent "licenses"

ASSUME MaxLenAssumption == MaxLen \in Nat

VARIABLES
    lockExists, \* FRONTEND_LOCK.exists()
    lock,       \* packages.items(), in the file's order
    i,          \* the next entry of the loop of line 150
    merged,     \* merged: (name, version) -> item, in insertion order
    order,      \* the keys of merged in insertion order (dict order)
    devOnly,    \* dev_only: (name, version) -> BOOLEAN
    runtime,    \* the runtime list returned
    dev,        \* the dev list returned
    done        \* parse_npm_packages has returned

vars == <<lockExists, lock, i, merged, order, devOnly, runtime, dev, done>>

-----------------------------------------------------------------------------
(* Helpers translated from the code.                                       *)

\* normalize_npm_license(info), lines 188-206.
NormalizeNpmLicense(e) ==
    IF e.license # "" THEN <<e.license>>
    ELSE IF e.licenses = Absent THEN <<>>
    ELSE IF DOMAIN e.licenses = {"type"}
         THEN IF e.licenses.type # "" THEN <<e.licenses.type>> ELSE <<>>
    ELSE SelectSeq(e.licenses, LAMBDA t : t # "")

\* `info.get("name") or path.replace("node_modules/", "")` (line 153): the
\* replace removes every "node_modules/", so a nested folder keeps the
\* names of all the folders above it.
PkgName(e) == IF e.name # NoName THEN <<e.name>> ELSE e.path

\* The dictionary key of line 158.
Key(e) == <<PkgName(e), e.version>>

\* The item stored for a new key (lines 160-165); licPath is the folder
\* the license file was found in, <<>> for "".
NewItem(e) ==
    [name |-> PkgName(e), version |-> e.version,
     license |-> NormalizeNpmLicense(e),
     licPath |-> IF e.licFile THEN e.path ELSE <<>>]

\* Python's < on the strings the name sequences stand for: lexicographic,
\* a prefix first.
NameLess(a, b) ==
    \/ IsStrictPrefix(a, b)
    \/ \E k \in 1..Len(a) :
          /\ k <= Len(b)
          /\ SubSeq(a, 1, k - 1) = SubSeq(b, 1, k - 1)
          /\ a[k] < b[k]

\* The sort key (name, version) of lines 183-184.
ItemLess(x, y) ==
    \/ NameLess(x.name, y.name)
    \/ x.name = y.name /\ x.version < y.version

\* list.sort over items with distinct keys.
SortItems(s) == SortSeq(s, ItemLess)

\* The keys of "packages" are distinct paths.
PathsDistinct(l) ==
    \A a, b \in 1..Len(l) :
        a # b /\ l[a].inModules /\ l[b].inModules => l[a].path # l[b].path

-----------------------------------------------------------------------------

TypeOK ==
    /\ lockExists \in BOOLEAN
    /\ lock \in Seq(Entries)
    /\ i \in 1..(Len(lock) + 1)
    /\ order \in Seq({Key(e) : e \in Entries})
    /\ DOMAIN merged = Range(order)
    /\ DOMAIN devOnly = Range(order)
    /\ done \in BOOLEAN

\* Lines 142-145: no lock file gives two empty lists; otherwise the
\* loop starts on the entries of the file.
Init ==
    /\ lockExists \in BOOLEAN
    /\ lock \in IF lockExists
                THEN {l \in BoundedSeq(Entries, MaxLen) : PathsDistinct(l)}
                ELSE {<<>>}
    /\ i = 1
    /\ merged = <<>>
    /\ order = <<>>
    /\ devOnly = <<>>
    /\ runtime = <<>>
    /\ dev = <<>>
    /\ done = ~lockExists

\* A new key (lines 159-166): record the item and its dev flag.
AddNew(e, k) ==
    /\ merged' = merged @@ (k :> NewItem(e))
    /\ order' = Append(order, k)
    /\ devOnly' = devOnly @@ (k :> e.dev)

\* Mutant of ClearDevOnly: the `dev_only[key] = False` of line 169 is
\* missing, so the first entry's flag stays.
KeepFirstDev(e, k) == devOnly' = devOnly

\* Lines 168-169: an entry that is not dev makes the package a runtime one.
ClearDevOnly(e, k) == devOnly' = [devOnly EXCEPT ![k] = @ /\ e.dev]

\* Mutant of FillMissing: only the license path is filled in later.
FillPathOnly(e, k) ==
    merged' = [merged EXCEPT ![k].licPath =
                  IF @ = <<>> /\ e.licFile THEN e.path ELSE @]

\* Lines 170-173: a license or license file still missing is taken from
\* this entry.
FillMissing(e, k) ==
    merged' = [merged EXCEPT
                  ![k].license = IF @ = <<>> THEN NormalizeNpmLicense(e) ELSE @,
                  ![k].licPath = IF @ = <<>> /\ e.licFile THEN e.path ELSE @]

\* One iteration of the loop of lines 150-173: skip an entry outside
\* node_modules (line 151), else add its key or merge it into the item of
\* its key.
Merge ==
    /\ ~done
    /\ i <= Len(lock)
    /\ LET e == lock[i]  k == Key(e) IN
         \/ ~e.inModules /\ UNCHANGED <<merged, order, devOnly>>
         \/ e.inModules /\ k \notin DOMAIN merged /\ AddNew(e, k)
         \/ /\ e.inModules /\ k \in DOMAIN merged
            /\ FillMissing(e, k) /\ ClearDevOnly(e, k)
            /\ UNCHANGED order
    /\ i' = i + 1
    /\ UNCHANGED <<lockExists, lock, runtime, dev, done>>

\* The items whose dev_only flag is flag, in insertion order (lines 177-181).
Items(flag) ==
    LET ks == SelectSeq(order, LAMBDA k : devOnly[k] = flag)
    IN  [j \in 1..Len(ks) |-> merged[ks[j]]]

\* Lines 175-185: split the merged items by dev_only, in insertion order,
\* and sort both lists by (name, version).
Partition ==
    /\ ~done
    /\ i = Len(lock) + 1
    /\ runtime' = SortItems(Items(FALSE))
    /\ dev' = SortItems(Items(TRUE))
    /\ done' = TRUE
    /\ UNCHANGED <<lockExists, lock, i, merged, order, devOnly>>

Next == Merge \/ Partition

Spec == Init /\ [][Next]_vars

-----------------------------------------------------------------------------
(***************************************************************************)
(* Reference definitions: what the notices should list, stated on the     *)
(* whole lock file at once, and the properties comparing them with what   *)
(* the loop returned.                                                      *)
(***************************************************************************)

\* The positions of the node_modules entries of key k.
At(k) == {j \in 1..Len(lock) : lock[j].inModules /\ Key(lock[j]) = k}

\* Every (name, version) of the lock file.
LockKeys == {Key(lock[j]) : j \in {j \in 1..Len(lock) : lock[j].inModules}}

ItemKeys(s) == {<<s[j].name, s[j].version>> : j \in 1..Len(s)}

\* A package is listed as dev-only exactly when every lock entry of it is
\* a dev entry, and as runtime when any entry of it is not, whichever
\* order the lock file lists them in (lines 166-169, 178-181).
DevOnlyIffAllDev ==
    done /\ lockExists =>
        /\ ItemKeys(dev) = {k \in LockKeys : \A j \in At(k) : lock[j].dev}
        /\ ItemKeys(runtime) = {k \in LockKeys : \E j \in At(k) : ~lock[j].dev}
        /\ Len(runtime) + Len(dev) = Cardinality(LockKeys)

\* A listed package carries the license of the first of its entries that
\* has one, "" only when none has, and likewise the license file of the
\* first of its entries whose folder holds one (lines 163-164, 170-173).
LicenseFirstKnown ==
    done =>
        \A s \in {runtime, dev} : \A j \in 1..Len(s) :
            LET k == <<s[j].name, s[j].version>>
                known == {m \in At(k) : NormalizeNpmLicense(lock[m]) # <<>>}
                files == {m \in At(k) : lock[m].licFile}
            IN /\ s[j].license = IF known = {} THEN <<>>
                                 ELSE NormalizeNpmLicense(lock[Min(known)])
               /\ s[j].licPath = IF files = {} THEN <<>>
                                 ELSE lock[Min(files)].path

\* Every listed name is the name of a package of the lock file: its "name"
\* field, or the folder it is installed in.
ListedNamesAreReal ==
    done =>
        \A s \in {runtime, dev} : \A j \in 1..Len(s) :
            \E m \in 1..Len(lock) :
                /\ lock[m].inModules
                /\ s[j].name = IF lock[m].name # NoName
                                 THEN <<lock[m].name>>
                                 ELSE <<Last(lock[m].path)>>
=============================================================================
