----------------------------- MODULE MCNpmLock -----------------------------
(***************************************************************************)
(* parse_npm_packages on every lock file of at most three entries drawn   *)
(* from a set that holds each case of the loop: a plain package (<<1>>),  *)
(* an alias installed under another folder that names the same package    *)
(* (<<2>> with name 1), a nested copy (<<1, 2>>) with and without a       *)
(* "name", the root entry, dev and runtime copies, and every shape of     *)
(* "license" and "licenses".                                              *)
(***************************************************************************)
EXTENDS NpmLock

E(in, path, name, ver, isDev, lic, lics, file) ==
    [inModules |-> in, path |-> path, name |-> name, version |-> ver,
     dev |-> isDev, license |-> lic, licenses |-> lics, licFile |-> file]

MCEntries ==
    { E(TRUE,  <<1>>,    NoName, 1, TRUE,  "",    Absent,          FALSE),
      E(TRUE,  <<1>>,    NoName, 1, FALSE, "",    <<"", "ISC">>,   TRUE),
      E(TRUE,  <<2>>,    1,      1, FALSE, "MIT", Absent,          TRUE),
      E(TRUE,  <<2>>,    NoName, 2, TRUE,  "",    [type |-> "ISC"], FALSE),
      E(TRUE,  <<1, 2>>, 1,      1, TRUE,  "",    <<>>,            TRUE),
      E(TRUE,  <<1, 2>>, NoName, 2, TRUE,  "",    Absent,          FALSE),
      E(FALSE, <<>>,     1,      1, FALSE, "MIT", Absent,          FALSE) }
=============================================================================
