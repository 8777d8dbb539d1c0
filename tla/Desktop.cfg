SPECIFICATION Spec
CONSTANTS
  crew = crew
  club = club
  deck = deck
  hall = hall
  Guilds = {crew, club}
  Channels = {deck, hall}
  GuildOf <- DeckAndHall
  Home = {crew, club}
  Past <- OneOnDeck
  Nothing = Nothing
  QueueSize = 2
  InboxSize = 1
  Ring = 1
  Page = 1
  MaxMessages = 2
  MaxTurns = 3
CHECK_DEADLOCK FALSE
INVARIANTS
  TypeOK
  SendsWhereShown
  SendsFitGuild
  ShownOrLost
  MainIsLoggedIn
