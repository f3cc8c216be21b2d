---------------------------- MODULE MCSchemaSync ----------------------------
(* A model in two versions, and models that dialects treat differently. *)
EXTENDS SchemaSync

Column(name, type) == [name |-> name, type |-> type, nullable |-> TRUE, pk |-> FALSE, unique |-> FALSE,
                       default |-> "none", auto |-> FALSE, check |-> FALSE, references |-> FALSE]
MCModel(name, cols) == [name |-> name, schema |-> NoSchema, cols |-> cols, pk |-> {},
                        constraints |-> <<>>, indexes |-> <<>>]
ByMail == [name |-> "by_mail", cols |-> {"mail"}, unique |-> TRUE, type |-> "btree", partial |-> FALSE]
ById == [name |-> "by_key", cols |-> {"id"}, unique |-> FALSE, type |-> "btree", partial |-> FALSE]

Users == [MCModel("users", <<Column("id", "integer")>>) EXCEPT !.pk = {"id"}]
Users2 == [Users EXCEPT !.cols = @ \o <<[Column("mail", "enum") EXCEPT !.nullable = FALSE, !.default = "plain"]>>,
                        !.indexes = <<ByMail>>]
\* With a key in the column, a reference and an index.
Orders == [MCModel("orders", <<[Column("id", "integer") EXCEPT !.pk = TRUE, !.auto = TRUE, !.nullable = FALSE]>>)
            EXCEPT !.indexes = <<ById, [ById EXCEPT !.name = NoName, !.type = "hash"]>>]
Items == [MCModel("items", <<Column("id", "text")>>) EXCEPT !.constraints =
            <<[kind |-> "foreign_key", name |-> NoName, cols |-> {"id"}, ref |-> "users"]>>]
Audit == [MCModel("audit", <<Column("at", "enum")>>) EXCEPT !.schema = "log"]
Twice == MCModel("twice", <<Column("id", "text"), Column("id", "text")>>)
Notes == MCModel("notes", <<[Column("id", "text") EXCEPT !.default = "semicolon"]>>)

MCLists == {<<Users>>, <<Users2>>, <<Users2, Orders>>, <<Items>>, <<Audit>>, <<Notes>>, <<Twice>>}
MCMigrations == {<<Users, Users2>>, <<Users2, Users>>}
MCAgainLists == {<<[Orders EXCEPT !.indexes = <<ById>>]>>}
=============================================================================
