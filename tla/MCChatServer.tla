---------------------------- MODULE MCChatServer ----------------------------
EXTENDS ChatServer
============================================================================
