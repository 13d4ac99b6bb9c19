------------------------ MODULE MCGarbageCollector -------------------------
EXTENDS GarbageCollector

CONSTANTS n1, n2

\* Two data pages, two notifying attachments.
MCPage == {1, 2}
MCNotifier == {n1, n2}
MCNotifier1 == {n1}
=============================================================================
