---------------------------- MODULE MCDatabases -----------------------------
(* Every driver, and the orchestrator's databases behind the proxy.        *)
EXTENDS Databases

MCUses == ({"sqlite", "mysql", "postgres"} \X {FALSE}) \union {<<"sqlite", TRUE>>}
MCParams == {{"Null", "Boolean", "Integer", "Float", "Text", "Blob"}, {"Integer", "Nested"}, {"Array"},
             {"Float", "NaN", "Infinite"}}
MCMaxCalls == [p \in BOOLEAN |-> IF p THEN 3 ELSE 5]
=============================================================================
