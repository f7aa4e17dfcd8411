----------------------- MODULE MCDynamicTransaction -----------------------
\* DynamicTransaction on a small instance: its constants are plain numbers.
EXTENDS DynamicTransaction

=============================================================================
