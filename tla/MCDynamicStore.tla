-------------------------- MODULE MCDynamicStore --------------------------
\* DynamicStore on a small instance: its constants are plain numbers.
EXTENDS DynamicStore

=============================================================================
