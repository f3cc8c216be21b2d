------------------------- MODULE MCSecretProviders --------------------------
(* Two keys, one of which is in the environment; the file before and after *)
(* another provider, and memory alone with several sets.                   *)
EXTENDS SecretProviders

CONSTANTS k1, k2

MCChains == {<<"file", "env">>, <<"memory", "file">>, <<"memory">>}
MCMaxValues == [c \in MCChains |-> CASE c = <<"file", "env">> -> 3
                                      [] c = <<"memory", "file">> -> 2
                                      [] c = <<"memory">> -> 4]
MCEnvs == {[k \in Names |-> IF k = k1 THEN EnvValue ELSE EnvError]}
=============================================================================
