-------------------------- MODULE MCArchiveStore ---------------------------
EXTENDS ArchiveStore

CONSTANTS Drain, Other  \* Other is a second drain, or the command

MCClients == {Drain, Other}

\* Two drains over the filesystem or S3; one drain and the command over rclone,
\* with every object readable, or not.
MCSetups ==
    {[atomic |-> TRUE, committers |-> MCClients, faults |-> {"crash", "listErr", "putErr"}],
     [atomic |-> FALSE, committers |-> {Drain}, faults |-> {"crash", "listErr", "putErr"}],
     [atomic |-> FALSE, committers |-> {Drain}, faults |-> {"crash", "openErr", "putErr"}]}
=============================================================================
