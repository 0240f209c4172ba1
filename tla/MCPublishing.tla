---------------------------- MODULE MCPublishing ----------------------------
EXTENDS Publishing

AllAdapters == {"github", "git", "http", "cloud", "datacenter"}
GitHubOnly == {"github"}
=============================================================================
