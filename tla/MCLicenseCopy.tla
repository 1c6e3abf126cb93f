--------------------------- MODULE MCLicenseCopy ---------------------------
(***************************************************************************)
(* Names and versions are spelt with a, b, 1 and v, plus "@", "/", "_" and *)
(* "-".  The npm packages "@a/b" and "a_b" sanitize to the same name; the  *)
(* Go module "a/b" has a "v" version, as Go versions do.  The manual       *)
(* files are one for the license b@1 already has, one for version "1-b"    *)
(* of b that its prefix "b@1-" also matches, and one of a Go module.       *)
(***************************************************************************)
EXTENDS LicenseCopy

Pkg(name, version, lic) == [name |-> name, version |-> version, lic |-> lic]

ScopedAB == Pkg(<<"@", "a", "/", "b">>, <<"1">>, "LICENSE")
PlainAB  == Pkg(<<"a", "_", "b">>, <<"1">>, "LICENSE")
B1       == Pkg(<<"b">>, <<"1">>, "COPYING")
B1b      == Pkg(<<"b">>, <<"1", "-", "b">>, "")
GoAB     == Pkg(<<"a", "/", "b">>, <<"v", "1">>, "LICENSE")
GoB      == Pkg(<<"b">>, <<"v", "1">>, "")

MCGoLists == {<<GoAB, GoB>>}
MCRuntimeLists == {<<B1>>, <<ScopedAB, PlainAB>>}
MCDevLists == {<<B1b>>}

MCManualPool ==
    [d \in Dirs |->
        CASE d = "go"  -> {<<"b", "@", "v", "1", "-", "NOTICE">>}
          [] d = "npm" -> {<<"b", "@", "1", "-", "COPYING">>,
                           <<"b", "@", "1", "-", "b", "-", "LICENSE">>}
          [] OTHER     -> {RcloneFile}]

MCStalePool ==
    [d \in Dirs |->
        IF d = "external" THEN {<<RcloneFile, "rclone">>}
                          ELSE {<<<<"a", "@", "1", "-", "LICENSE">>, "stale">>}]

MCAlnum == {"a", "b", "1", "v"}

MCArgs == {"--include-dev", "--runtime-only", "-h"}
=============================================================================
