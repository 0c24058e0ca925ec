--------------------------- MODULE MCChatClients ---------------------------
EXTENDS ChatClients
MCImpatient == {1}
MCBystanders == {2, 3}
MCStaying == {2}
===========================================================================
