--------------------------- MODULE MCP4cpConfig ---------------------------
(* Options for the build type, the target, one path, the prefix and a    *)
(* bool; every format spelling class; the three ways of --load.  File    *)
(* systems: none, a local file, a file in the home directory, a --load   *)
(* file, the first three written with lower-case and ~ values as a user  *)
(* would type them, the --load one with canonical values.                *)
EXTENDS P4cpConfig

UserFile == [build_type |-> Str("debug", "lower"), sde_install |-> <<"~", "sde">>]
CanonFile == [build_type |-> Str("release", "cap"), tdi_target |-> Str("dpdk", "upper")]

MCFileSystems ==
    { <<>>,
      [f \in {LOCAL_CONFIG_FILE} |-> UserFile],
      [f \in {<<Home, ".p4cpconfig">>} |-> UserFile],
      [f \in {<<".", "my.json">>} |-> CanonFile] }

MCArgSpace ==
    [ build_type   : {PyNone, Str("reldeb", "upper"), Str("fast", "lower")},
      cxx_standard : {PyNone},
      dep_install  : {PyNone},
      ovs_install  : {PyNone},
      prefix       : {PyNone, <<".", "inst">>},
      sde_install  : {PyNone, <<"/", "sde">>},
      set_rpath    : {PyNone},
      target       : {PyNone, Str("es2k", "lower")},
      with_krnlmon : {PyNone},
      with_ovs     : {PyNone, FALSE},
      format       : {Str("cmake", "lower"), Str("json", "upper"), Str("env", "lower"), Dash},
      default_cfg  : {PyNone, Dash, "my.json", "none.json"},
      outfile      : {PyNone} ]
=============================================================================
