---------------------------- MODULE MCToolchain ----------------------------
\* Toolchain for TLC: the shapes of suites that the specs of test/ have.
EXTENDS Toolchain

Suite(parent, hooks, tests, subject) ==
  [parent |-> parent, hooks |-> hooks, tests |-> tests, subject |-> subject]

\* Suites with the suites around each.
Forest(suites) ==
  LET around[s \in DOMAIN suites] ==
        {s} \cup IF suites[s].parent = 0 THEN {} ELSE around[suites[s].parent]
  IN  [s \in DOMAIN suites |-> suites[s] @@ [around |-> around[s]]]

\* Every contract the helper can deploy, under test in a file that deploys it
\* before each test and restores after it.
Catalogue == { << Suite(0, <<"each", "snap">>, 1, kind) >> : kind \in Kinds }

\* A file that deploys the system once and restores after each test, as most
\* specs do.
RestoreFile ==
  << Suite(0, <<"before", "snap">>, 1, "System"), Suite(1, <<"each">>, 2, "SetToken") >>

\* Nested caches, suites beside each other and in each other.
CacheFile(subjects, tests) ==
  << Suite(0, <<"cache">>, tests[1], "Controller"),
     Suite(1, <<"cache">>, tests[2], subjects[1]),
     Suite(2, <<"cache">>, tests[3], subjects[2]),
     Suite(1, <<"each">>, tests[4], "TokenEnabler") >>

Nested == { CacheFile(<<"TradeModule", "SetToken">>, t) :
              t \in {<<2, 2, 2, 1>>, <<0, 1, 2, 2>>, <<1, 0, 2, 1>>} }

\* A cached file, with its deployments in a before hook, and one that restores
\* but deploys before each snapshot, one after the other.
Mixed ==
  { << Suite(0, <<"before">>, 0, "Controller"),
       Suite(1, <<"cache">>, 2, "SetToken"),
       Suite(2, <<>>, 1, "SetToken"),
       Suite(0, <<"each", "snap">>, 2, "Controller"),
       Suite(4, <<"each">>, 1, "SetValuer") >> }

\* curveExchangeALM.spec.ts registers two caches in one suite.
TwoCaches ==
  { << Suite(0, <<"cache">>, 1, "Controller"),
       Suite(1, <<"cache", "cache">>, 2, "SetToken"),
       Suite(2, <<"cache", "each">>, 2, "TokenEnabler") >> }

\* basicIssuanceModule.spec.ts deploys a mock in a before hook inside of a suite that
\* deploys before each test.
BeforeInside ==
  { << Suite(0, <<"before", "snap">>, 0, "Controller"),
       Suite(1, <<"each">>, 1, "SetValuer"),
       Suite(2, <<"before">>, 2, "ManagerIssuanceHookMock") >> }

MCForests == {Forest(f) : f \in Catalogue \cup {RestoreFile} \cup Nested
                                 \cup Mixed \cup TwoCaches \cup BeforeInside}

=============================================================================
