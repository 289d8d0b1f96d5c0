------------------------------ MODULE MCPipeline ------------------------------
(* Small payload files, and the outputs that Taurus configures.            *)
EXTENDS Pipeline

OK == [meta |-> "ok", payload |-> "full", regex |-> "ok",
       label |-> EmptyString, labelIdx |-> 0, template |-> FALSE,
       extract |-> "none", asserts |-> << >>]

Text    == [OK EXCEPT !.label = <<"a">>]                 \* label in the record
Indexed == [OK EXCEPT !.labelIdx = 1, !.asserts = <<"assert">>]
Named   == [OK EXCEPT !.label = <<"${x}">>, !.template = TRUE, !.extract = "group"]
NoGroup == [Named EXCEPT !.extract = "no_group"]
Plain   == OK                                            \* no label
Skipped == [OK EXCEPT !.meta = "broken"]
NoRegex == [OK EXCEPT !.regex = "broken"]
Dangling == [OK EXCEPT !.labelIdx = 7]
Fatals  == {[OK EXCEPT !.meta = "no_plen"], [OK EXCEPT !.meta = "long"],
            [OK EXCEPT !.payload = "short"], [OK EXCEPT !.regex = "missing"]}

MCInputStrings == <<"in">>
MCLines == STRING

Conf(payload, limit, regexes, driver, outs, errors, ws, entries, seconds) ==
    [payload |-> payload, iterationLimit |-> limit, enableRegexes |-> regexes,
     driver |-> driver, outs |-> outs, netErrors |-> errors, workers |-> ws, hits |-> entries,
     seconds |-> seconds]

Refused == {<<"refused">>}

MCConfs ==
    { Conf(<<Text, Skipped, Indexed>>, 0, FALSE, "http", <<"binary">>, {}, 1, 2, 2),
      Conf(<<Text>>, 0, FALSE, "http", <<"binary">>, {}, 1, 3, 1),
      Conf(<<Text>>, 0, FALSE, "http", <<"ldjson">>, {}, 2, 2, 1),
      Conf(<<Plain, Skipped>>, 1, FALSE, "http", <<"ldjson">>, {}, 2, 2, 1),
      Conf(<<Named>>, 1, TRUE, "http", <<"ldjson">>, {}, 2, 2, 1),
      Conf(<<Named>>, 0, TRUE, "http", <<"ldjson">>, {}, 1, 2, 1),
      Conf(<<Text, NoRegex>>, 2, FALSE, "http", <<"ldjson", "trace">>, Refused, 1, 2, 1),
      Conf(<<Text, NoGroup>>, 0, FALSE, "http", <<"ldjson">>, {}, 1, 2, 1),
      Conf(<<Plain>>, 0, FALSE, "dummy", <<"ldjson">>, {}, 1, 2, 1),
      Conf(<<Text, Skipped, Skipped>>, 0, FALSE, "http", <<"ldjson">>, {}, 1, 2, 1),
      Conf(<<Indexed>>, 0, FALSE, "http", <<"ldjson">>, Refused, 1, 1, 1),
      Conf(<<Dangling>>, 0, FALSE, "http", <<"ldjson">>, {}, 1, 1, 1),
      Conf(<< >>, 0, FALSE, "http", <<"binary">>, {}, 1, 1, 1) }
    \cup { Conf(<<Text, f>>, 0, FALSE, "http", <<"ldjson">>, {}, 1, 2, 1) : f \in Fatals }

(* A network error and an assertion that fails on the missing response.    *)
FailingAsserts ==
    { Conf(<<Indexed, Text>>, 0, FALSE, "http", <<"binary">>, Refused, 1, 3, 2) }

MCDummyLabels == {<<"label#0">>, <<"label#1">>}
=============================================================================
