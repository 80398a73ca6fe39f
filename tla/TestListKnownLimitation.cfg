\* Cluster config: two clusters, two keys, three kinds of value, five
\* lines: room for a repeated header with a key between, a key before any
\* header, and "[ ]".  Launch: two server names, gpus_per_node 0, 2 and 4
\* against world sizes 1, 2 and 4 (a server smaller than, equal to and
\* larger than a node), 0 to 2 servers per role, two server configs.
\* Test list: two TXT lines or two YAML groups of up to two tests, every
\* --mode, over the ids of MCIds and MCYamlIds.
CONSTANTS
    Clusters = {"c1", "c2"}
    Keys = {"k1", "k2"}
    MaxLines = 5
    Names = {"n1", "n2"}
    Gpns = {0, 2, 4}
    Counts = {0, 1, 2}
    MaxServers = 2
    ListLines = 2
    ListTests = 2
SPECIFICATION Spec
INVARIANTS
    KnownLimitationSingleAgg
\* Both tools exit: the loader after printing, submit.py after writing the
\* script or on an exception, the calculator after its check, the test-list
\* parser after printing or on exit 1.
CHECK_DEADLOCK FALSE
