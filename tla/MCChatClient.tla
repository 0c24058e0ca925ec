---------------------------- MODULE MCChatClient ----------------------------
EXTENDS ChatClient
============================================================================
