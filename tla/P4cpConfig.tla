----------------------------- MODULE P4cpConfig -----------------------------
(***************************************************************************)
(* scripts/p4cpconfig.py: generates a build configuration (cmake, env or   *)
(* json) from command-line options and a json file of defaults.  main     *)
(* parses and canonicalizes the options (process_args), exits 1 on an     *)
(* invalid one, picks and loads the defaults file (load_defaults), gives  *)
(* every parameter its option, else its default (define_config,           *)
(* ConfigParam._setvalue) and writes the defined ones.                    *)
(*                                                                         *)
(* Data is abstracted to what the code tells apart.  A string is its      *)
(* letters (word, in lower case) and its capitalisation: "lower", "upper",*)
(* "cap" (CMake's own spelling, as in "RelWithDebInfo") or "mixed";       *)
(* str.lower() and str.upper() change only the capitalisation.  A path is *)
(* <<anchor, name>> with anchor "~" (home), "." (relative) or an absolute *)
(* directory; abspath(expanduser(p)) anchors it at Home or Cwd.  A file   *)
(* system maps file names, as os.path.exists sees them, to the json       *)
(* records they hold.                                                     *)
(***************************************************************************)
EXTENDS Integers, FiniteSets

CONSTANTS
    PyNone, NoneStr, Dash, Empty, \* None, 'None', '-', ''
    Home, Cwd,                    \* what expanduser('~') and '.' resolve to
    ArgSpace,                     \* the parsed command lines considered
    FileSystems,                  \* the file systems considered
    Stdout                        \* '/dev/stdout'

UNSPECIFIED == {PyNone, NoneStr, Dash, Empty}

Str(w, c) == [word |-> w, case |-> c]
Lower(s) == Str(s.word, "lower")
Upper(s) == Str(s.word, "upper")

\* file names as os.path.exists sees them: relative names are anchored at "."
LOCAL_CONFIG_FILE == <<".", ".p4cpconfig">>
USER_CONFIG_FILE == <<".", "~/.p4cpconfig">>

\* the ten parameters of define_config: json name, cmake and env variable,
\* option they take their value from
Params ==
  { [name |-> "build_type",   cmake |-> "CMAKE_BUILD_TYPE",     env |-> PyNone,           arg |-> "build_type"],
    [name |-> "cxx_standard", cmake |-> "CMAKE_CXX_STANDARD",   env |-> PyNone,           arg |-> "cxx_standard"],
    [name |-> "dep_install",  cmake |-> "DEPEND_INSTALL_DIR",   env |-> "DEPEND_INSTALL", arg |-> "dep_install"],
    [name |-> "ovs_install",  cmake |-> "OVS_INSTALL_DIR",      env |-> "OVS_INSTALL",    arg |-> "ovs_install"],
    [name |-> "prefix",       cmake |-> "CMAKE_INSTALL_PREFIX", env |-> PyNone,           arg |-> "prefix"],
    [name |-> "sde_install",  cmake |-> "SDE_INSTALL_DIR",      env |-> "SDE_INSTALL",    arg |-> "sde_install"],
    [name |-> "set_rpath",    cmake |-> "SET_RPATH",            env |-> PyNone,           arg |-> "set_rpath"],
    [name |-> "tdi_target",   cmake |-> "TDI_TARGET",           env |-> PyNone,           arg |-> "target"],
    [name |-> "with_krnlmon", cmake |-> "WITH_KRNLMON",         env |-> PyNone,           arg |-> "with_krnlmon"],
    [name |-> "with_ovs",     cmake |-> "WITH_OVSP4RT",         env |-> PyNone,           arg |-> "with_ovs"] }

PathArgs == {"dep_install", "ovs_install", "sde_install", "prefix"}

\* the build types process_build_type_param accepts, and CMake's spelling
\* of each (Str(w, "cap") is "Debug", "Release", "RelWithDebInfo" ...)
BuildTypes == [debug |-> "debug", release |-> "release", reldeb |-> "relwithdebinfo",
               relwithdebinfo |-> "relwithdebinfo", minsize |-> "minsizerel",
               minsizerel |-> "minsizerel"]
Targets == {"dpdk", "es2k", "tofino"}
Formats == {"cmake", "env", "json"}

\* os.path.abspath(os.path.expanduser(value))
Resolve(p) == CASE p[1] = "~" -> <<Home, p[2]>>
                [] p[1] = "." -> <<Cwd, p[2]>>
                [] OTHER      -> p

\* each process_*_param: the new option value, and whether it logged an error
ProcessBuildType(v) ==
    IF v \in UNSPECIFIED THEN [val |-> PyNone, err |-> 0]
    ELSE IF Lower(v).word \in DOMAIN BuildTypes
         THEN [val |-> Str(BuildTypes[Lower(v).word], "cap"), err |-> 0]
         ELSE [val |-> v, err |-> 1]
ProcessFormat(v) ==
    IF v \in UNSPECIFIED THEN [val |-> v, err |-> 1]
    ELSE IF Lower(v).word \in Formats THEN [val |-> Lower(v), err |-> 0]
         ELSE [val |-> v, err |-> 1]
ProcessOutput(v) == IF v \in UNSPECIFIED THEN Stdout ELSE v
ProcessTarget(v) ==
    IF v \in UNSPECIFIED THEN [val |-> PyNone, err |-> 0]
    ELSE IF Upper(v).word \in Targets THEN [val |-> Upper(v), err |-> 0]
         ELSE [val |-> v, err |-> 1]
ResolvePath(v) == IF v \in UNSPECIFIED THEN PyNone ELSE Resolve(v)

\* process_args, calling the five in the code's order
ProcessArgs(a) ==
    LET bt == ProcessBuildType(a.build_type)
        fm == ProcessFormat(a.format)
        tg == ProcessTarget(a.target)
    IN [args |-> [n \in DOMAIN a |->
                    CASE n = "build_type" -> bt.val
                      [] n = "format"     -> fm.val
                      [] n = "outfile"    -> ProcessOutput(a.outfile)
                      [] n = "target"     -> tg.val
                      [] n \in PathArgs   -> ResolvePath(a[n])
                      [] OTHER            -> a[n]],
        errs |-> bt.err + fm.err + tg.err]

\* the file load_defaults opens; PyNone when it loads nothing
DefaultsFile(a, fs) ==
    CASE a.default_cfg \notin UNSPECIFIED   -> <<".", a.default_cfg>>
      [] a.default_cfg # PyNone            -> PyNone
      [] LOCAL_CONFIG_FILE \in DOMAIN fs   -> LOCAL_CONFIG_FILE
      [] USER_CONFIG_FILE \in DOMAIN fs    -> USER_CONFIG_FILE
      [] OTHER                             -> PyNone

\* Defaults.__getitem__: the json value, None when the key is absent
DefaultOf(d, name) == IF name \in DOMAIN d THEN d[name] ELSE PyNone

\* ConfigParam._setvalue
SetValue(value, default) ==
    IF value \notin UNSPECIFIED THEN value
    ELSE IF default \notin UNSPECIFIED THEN default ELSE PyNone

\* get_cmake_params / get_env_params / get_json_params: the defined ones
Written(fmt, cfg) ==
    CASE fmt = Str("cmake", "lower") -> {<<p.cmake, cfg[p.name]>> : p \in {q \in Params : cfg[q.name] \notin UNSPECIFIED}}
      [] fmt = Str("env", "lower")   -> {<<p.env, cfg[p.name]>> : p \in {q \in Params : q.env # PyNone /\ cfg[q.name] \notin UNSPECIFIED}}
      [] fmt = Str("json", "lower")  -> {<<p.name, cfg[p.name]>> : p \in {q \in Params : cfg[q.name] \notin UNSPECIFIED}}

VARIABLES
    fs,        \* the file system
    args,      \* the parsed, then processed, options
    errcount,  \* errcount
    pc,        \* next step of main
    defs,      \* the loaded Defaults.params
    config,    \* Config.params: name -> value
    out,       \* what the output file receives: <<variable, value>> pairs
    exitcode   \* the process exit status, PyNone while running

vars == <<fs, args, errcount, pc, defs, config, out, exitcode>>

Init ==
    /\ fs \in FileSystems /\ args \in ArgSpace
    /\ errcount = 0 /\ pc = "process"
    /\ defs = <<>> /\ config = <<>> /\ out = {} /\ exitcode = PyNone

\* process_args(args), then `if errcount != 0: exit(1)`
Process ==
    /\ pc = "process"
    /\ LET r == ProcessArgs(args)
       IN /\ args' = r.args
          /\ errcount' = r.errs
          /\ IF r.errs # 0 THEN pc' = "exited" /\ exitcode' = 1
                           ELSE pc' = "load" /\ UNCHANGED exitcode
    /\ UNCHANGED <<fs, defs, config, out>>

\* load_defaults(args); open() of a missing --load file raises
LoadDefaults ==
    /\ pc = "load"
    /\ LET fn == DefaultsFile(args, fs)
       IN IF fn = PyNone
          THEN defs' = <<>> /\ pc' = "define" /\ UNCHANGED exitcode
          ELSE IF fn \in DOMAIN fs
               THEN defs' = fs[fn] /\ pc' = "define" /\ UNCHANGED exitcode
               ELSE pc' = "exited" /\ exitcode' = 1 /\ UNCHANGED defs
    /\ UNCHANGED <<fs, args, errcount, config, out>>

\* define_config(args, defaults)
DefineConfig ==
    /\ pc = "define"
    /\ config' = [n \in {p.name : p \in Params} |->
                    LET p == CHOOSE q \in Params : q.name = n
                    IN SetValue(args[p.arg], DefaultOf(defs, n))]
    /\ pc' = "write"
    /\ UNCHANGED <<fs, args, errcount, defs, out, exitcode>>

\* open(args.outfile, 'w') and the writer of args.format
Write ==
    /\ pc = "write"
    /\ out' = Written(args.format, config)
    /\ pc' = "exited" /\ exitcode' = 0
    /\ UNCHANGED <<fs, args, errcount, defs, config>>

Next == Process \/ LoadDefaults \/ DefineConfig \/ Write

Spec == Init /\ [][Next]_vars

-----------------------------------------------------------------------------
(* What the file's comments promise: USER_CONFIG_FILE is an "implicit     *)
(* default configuration file" of the user's home, and process_args       *)
(* "performs canonicalization and input validation" of a value, so a      *)
(* value taken from a defaults file reads as the same value given as an   *)
(* option would.                                                          *)

\* the defaults file of the documented search: --load, ./.p4cpconfig, ~/.p4cpconfig
DocumentedFile(a, f) ==
    CASE a.default_cfg \notin UNSPECIFIED       -> <<".", a.default_cfg>>
      [] a.default_cfg # PyNone                -> PyNone
      [] LOCAL_CONFIG_FILE \in DOMAIN f        -> LOCAL_CONFIG_FILE
      [] <<Home, ".p4cpconfig">> \in DOMAIN f  -> <<Home, ".p4cpconfig">>
      [] OTHER                                 -> PyNone

\* a value as process_args would leave it
Canonical(arg, v) ==
    CASE arg = "build_type"  -> ProcessBuildType(v).val
      [] arg = "target"      -> ProcessTarget(v).val
      [] arg \in PathArgs    -> ResolvePath(v)
      [] OTHER               -> v

DocumentedConfig ==
    LET fn == DocumentedFile(args, fs)
        d == IF fn \in DOMAIN fs THEN fs[fn] ELSE <<>>
    IN [n \in {p.name : p \in Params} |->
          LET p == CHOOSE q \in Params : q.name = n
          IN IF args[p.arg] \notin UNSPECIFIED THEN args[p.arg]
             ELSE Canonical(p.arg, DefaultOf(d, n))]

\* A successful run writes every parameter with its option, else with the
\* canonical form of its value in the defaults file the search documents
\* (load_defaults, define_config and ConfigParam._setvalue together).
ConfigAsDocumented ==
    (pc = "exited" /\ exitcode = 0) => out = Written(args.format, DocumentedConfig)

====
