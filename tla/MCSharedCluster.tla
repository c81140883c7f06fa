--------------------------- MODULE MCSharedCluster ---------------------------
(* Three tests of one process, in every combination that makes a difference. *)
EXTENDS SharedClusterProps, TLC

CONSTANTS t1, t2, t3, schema, seeded, demo, d1, d2, s1, s2, s3

Tests3 == {t1, t2, t3}
MCTemplates == {schema, seeded, demo}
MCNeeds == schema :> None @@ seeded :> schema @@ demo :> seeded

\* All apart; or one with a template that needs what needs it.
Apart == schema :> s1 @@ seeded :> s2 @@ demo :> s3
Hashes == {Apart, schema :> s1 @@ seeded :> s2 @@ demo :> s1}

ATest(cs, template, name, ending) ==
  [calls |-> cs, template |-> template, name |-> name, ending |-> ending]

Idle == ATest(<< >>, None, d1, "scope_end")
With(a, b, c) == t1 :> a @@ t2 :> b @@ t3 :> c

Shared == <<"handle">>

\* Templates that are built on others, wherever they are.
Nested == With(ATest(Shared, demo, d1, "force_drop"), ATest(Shared, seeded, d2, "scope_end"), Idle)

\* With one template at most, its place makes no difference.
Others == {
  \* one template, and one name dropped twice while another test takes it
  With(ATest(Shared, schema, d1, "drop_database"), ATest(Shared, schema, d1, "scope_end"), Idle),
  \* three tests that ask for the same cluster
  With(ATest(Shared, None, d1, "scope_end"), ATest(Shared, None, d1, "scope_end"),
       ATest(Shared, None, d1, "scope_end")),
  \* both singletons, in one test and in two
  With(ATest(<<"handle", "legacy">>, None, d1, "scope_end"),
       ATest(<<"legacy">>, None, d1, "scope_end"), Idle),
  With(ATest(Shared, schema, d1, "scope_end"), ATest(<<"legacy">>, None, d2, "scope_end"),
       ATest(Shared, None, d1, "scope_end")),
  \* a test with a cluster of its own beside tests that share one; it may find their
  \* template half set up once the starter of their cluster has ended
  With(ATest(<<"own">>, schema, d1, "scope_end"), ATest(Shared, schema, d2, "scope_end"),
       ATest(Shared, None, d1, "scope_end")),
  With(ATest(<<"own", "handle">>, None, d1, "scope_end"), ATest(Shared, None, d1, "scope_end"),
       Idle),
  With(ATest(<<"own">>, schema, d1, "force_drop"), ATest(<<"own">>, schema, d1, "scope_end"),
       Idle) }

MCPlans == {[tests |-> Nested, shards |-> h] : h \in Hashes}
           \cup {[tests |-> t, shards |-> Apart] : t \in Others}
=============================================================================
