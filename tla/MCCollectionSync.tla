-------------------------- MODULE MCCollectionSync --------------------------
EXTENDS CollectionSync
CONSTANTS a, b, note, deck

\* All sites hold the deck; the note is yet to be added, by one device or by both.
Known == {{deck}}
=============================================================================
