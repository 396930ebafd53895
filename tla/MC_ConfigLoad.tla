--------------------------- MODULE MC_ConfigLoad ---------------------------
(***************************************************************************)
(* A small instance of ConfigLoad: a config struct with one nested struct *)
(* (like the AddOns section of the osde2e config), one leaf of each       *)
(* reflect kind, two leaves without an env tag, four overlay documents    *)
(* packaged under /configs and one custom file on disk.                   *)
(***************************************************************************)
EXTENDS ConfigLoad, TLC

(* Config{ReportDir, Addons{Suffix, IDs}, Timeout, Suite, DryRun}; Timeout *)
(* has no default tag, Suite and DryRun have no env tag.                   *)
MCStrLeaves == {"ReportDir", "Suffix", "Suite"}
MCBoolLeaves == {"DryRun"}
MCIntLeaves == {"Timeout"}
MCSliceLeaves == {"IDs"}
MCLeaves == MCStrLeaves \cup MCBoolLeaves \cup MCIntLeaves \cup MCSliceLeaves
MCFields == <<"ReportDir", "Suffix", "IDs", "Timeout", "Suite", "DryRun">>
MCFrames == {"Config", "Addons"}
MCFrame == [l \in MCLeaves |-> IF l \in {"Suffix", "IDs"} THEN "Addons" ELSE "Config"]
MCEnclosing == [f \in MCFrames |-> IF f = "Addons" THEN {"Addons", "Config"} ELSE {"Config"}]
MCDefaultTag == ("ReportDir" :> "__TMP_DIR__") @@ ("Suffix" :> "__RND_8__")
                @@ ("IDs" :> "a,b") @@ ("Timeout" :> NoTag)
                @@ ("Suite" :> "x") @@ ("DryRun" :> "true")
MCEnvTag == ("ReportDir" :> "REPORT_DIR") @@ ("Suffix" :> "ADDON_SUFFIX")
            @@ ("IDs" :> "ADDON_IDS") @@ ("Timeout" :> "TIMEOUT")
            @@ ("Suite" :> NoTag) @@ ("DryRun" :> NoTag)
MCEnvVars == {"REPORT_DIR", "ADDON_SUFFIX", "ADDON_IDS", "TIMEOUT"}
(* "1" parses as an int, a bool and a one-element slice; the directives *)
(* take every branch of the string case, the Atoi overflow included.     *)
MCEnvChoices == {"", "1", "__TMP_DIR__", "__RND_8__",
                 "__RND_99999999999999999999__", "__RND_abc__"}

MCDocNames == {"stage", "prod", "typo", "broken", "custom.yaml"}
NoKeys == [l \in {} |-> 0]
Doc(ss, bs, is, sls, bad, syntax) ==
    [strs |-> ss, bools |-> bs, ints |-> is, slices |-> sls,
     bad |-> bad, syntax |-> syntax]
MCDocs ==
    ("stage" :> Doc("ReportDir" :> Lit("x"), NoKeys, NoKeys, "IDs" :> <<"c">>,
                    {}, FALSE))
 @@ ("prod" :> Doc("ReportDir" :> Lit("7"), NoKeys, "Timeout" :> 0, NoKeys,
                   {}, FALSE))
 @@ ("typo" :> Doc(NoKeys, "DryRun" :> FALSE, NoKeys, NoKeys, {"Timeout"}, FALSE))
 @@ ("broken" :> Doc(NoKeys, NoKeys, NoKeys, NoKeys, {}, TRUE))
 @@ ("custom.yaml" :> Doc("Suite" :> Lit("true"), NoKeys, "Timeout" :> 7, NoKeys,
                          {}, FALSE))
MCBundled == {"stage", "prod", "typo", "broken"}
MCOnDisk == {"custom.yaml", "broken", "typo"}
MCConfigChoices == {<< >>, <<"stage", "prod">>, <<"prod", "stage">>,
                    <<"stage", "typo">>, <<"broken">>, <<"missing">>}
MCCustomChoices == {"", "custom.yaml", "nofile.yaml", "broken", "typo"}
=============================================================================
