----------------------------- MODULE MCOAuthFlow -----------------------------
EXTENDS OAuthFlow, TLC

\* google's server reads the plain file, google-analytics' the ADC one.
Google == {"google", "google-analytics"}
GoogleReads == ("google" :> "refresh_token") @@ ("google-analytics" :> "credentials.json")

\* Callbacks and state tokens are interchangeable.
Alike == Permutations(Flows) \cup Permutations(Tokens)
=============================================================================
