--------------------------- MODULE DatabaseValues ---------------------------
(***************************************************************************)
(* How the database drivers (src/database) bind parameters and read        *)
(* columns.  A value is told by its kind: what matters is whether a driver *)
(* takes it, in which form it is stored, and what a getter makes of it.    *)
(***************************************************************************)

\* DatabaseValue; a float that is no number or infinite and a nested array
\* are the cases of their kinds that a driver may treat in another way.
NotFinite == {"NaN", "Infinite"}
Kinds == {"Null", "Boolean", "Integer", "Float", "Text", "Blob", "Array", "Nested"} \union NotFinite
Arrays == {"Array", "Nested"}

\* What is in a column: a value as it was bound, or what became of it.
\* "Missing" is a column that the row does not have.
Forms == Kinds \union {"Debug", "Base64", "Missing"}
Getters == {"string", "i64", "f64", "bool", "bytes"}
KindOf == [string |-> "Text", i64 |-> "Integer", f64 |-> "Float", bool |-> "Boolean",
           bytes |-> "Blob"]
OwnGetters(v) == IF v = "Null" THEN Getters
                 ELSE IF v \in Arrays THEN {"string"}
                 ELSE {g \in Getters : KindOf[g] = v \/ (v \in NotFinite /\ g = "f64")}
Drivers == {"sqlite", "mysql", "postgres", "proxy"}

-----------------------------------------------------------------------------
(* Binding.                                                                *)

\* SQLite takes a NaN for NULL.
SqliteBind(v) == IF v \in Arrays THEN "refused" ELSE IF v = "NaN" THEN "Null" ELSE v
MySqlBind(v) == IF v \in Arrays THEN "refused" ELSE v
\* format!("{:?}", arr)
PostgresBind(v) == IF v \in Arrays THEN "Debug" ELSE v

\* JSON has no bytes and no NaN; arrays go one level deep.
ProxyBind(v) ==
    CASE v \in NotFinite \union {"Nested"} -> "refused"
      [] v = "Blob" -> "Base64"
      [] OTHER -> v

Bind(driver, v) ==
    CASE driver = "sqlite" -> SqliteBind(v)
      [] driver = "mysql" -> MySqlBind(v)
      [] driver = "postgres" -> PostgresBind(v)
      [] driver = "proxy" -> ProxyBind(v)

\* What the database of a driver holds, if it is bound.  MySQL has only finite
\* doubles, and in its default mode a statement that writes another fails.
Holds(driver, v) == driver = "mysql" => v \notin NotFinite

-----------------------------------------------------------------------------
(* Reading.  sqlx decodes a column only into a type that goes with it, and *)
(* has an error of its own for NULL, which is neither ColumnNotFound nor   *)
(* TypeNotFound.                                                           *)

SqlxTryGet(f, g) ==
    CASE f = "Missing" -> "ColumnNotFound"
      [] f \in {"Debug", "Base64"} /\ g = "string" -> f
      [] f \in NotFinite /\ g = "f64" -> f
      [] f = KindOf[g] -> f
      [] OTHER -> "Err"

OrErr(r) == IF r = "ColumnNotFound" THEN "Err" ELSE r
OrNone(r) == IF r = "ColumnNotFound" THEN "None" ELSE r

SqliteGet(f, g) == OrErr(SqlxTryGet(f, g))
SqliteTryGet(f, g) == OrNone(SqlxTryGet(f, g))
MySqlGet(f, g) == OrErr(SqlxTryGet(f, g))
MySqlTryGet(f, g) == OrNone(SqlxTryGet(f, g))
PostgresGet(f, g) == OrErr(SqlxTryGet(f, g))
PostgresTryGet(f, g) == OrNone(SqlxTryGet(f, g))

\* Rows of the orchestrator are JSON objects.  Text that is no base64 has no
\* bytes, and an array has them when its items are small enough.
ProxyGetString(f) == IF f \in {"Text", "Base64"} THEN f ELSE "Err"
ProxyGetI64(f) == IF f = "Integer" THEN f ELSE "Err"
ProxyGetF64(f) == IF f \in {"Float", "Integer"} THEN f ELSE "Err"
ProxyGetBool(f) == IF f = "Boolean" THEN f ELSE "Err"
ProxyGetBytes_Raw(f) == IF f \in {"Text", "Base64"} THEN f ELSE "Err"
ProxyGetBytes(f) == IF f = "Base64" THEN "Blob" ELSE IF f = "Array" THEN f ELSE "Err"

ProxyTryGetString(f) == IF f \in {"Null", "Missing"} THEN "None" ELSE ProxyGetString(f)
ProxyTryGetI64(f) == IF f \in {"Null", "Missing"} THEN "None" ELSE ProxyGetI64(f)
ProxyTryGetF64(f) == IF f \in {"Null", "Missing"} THEN "None" ELSE ProxyGetF64(f)
ProxyTryGetBool(f) == IF f \in {"Null", "Missing"} THEN "None" ELSE ProxyGetBool(f)
ProxyTryGetBytes(f) == IF f \in {"Null", "Missing"} THEN "None" ELSE ProxyGetBytes(f)

ProxyGet(f, g) ==
    CASE g = "string" -> ProxyGetString(f) [] g = "i64" -> ProxyGetI64(f)
      [] g = "f64" -> ProxyGetF64(f) [] g = "bool" -> ProxyGetBool(f)
      [] g = "bytes" -> ProxyGetBytes(f)
ProxyTryGet(f, g) ==
    CASE g = "string" -> ProxyTryGetString(f) [] g = "i64" -> ProxyTryGetI64(f)
      [] g = "f64" -> ProxyTryGetF64(f) [] g = "bool" -> ProxyTryGetBool(f)
      [] g = "bytes" -> ProxyTryGetBytes(f)

\* get_* and, where try is set, try_get_* of a row.
Get(driver, f, g, try) ==
    CASE driver = "sqlite" -> IF try THEN SqliteTryGet(f, g) ELSE SqliteGet(f, g)
      [] driver = "mysql" -> IF try THEN MySqlTryGet(f, g) ELSE MySqlGet(f, g)
      [] driver = "postgres" -> IF try THEN PostgresTryGet(f, g) ELSE PostgresGet(f, g)
      [] driver = "proxy" -> IF try THEN ProxyTryGet(f, g) ELSE ProxyGet(f, g)
=============================================================================
